---- MODULE Spec2Model ----
(***************************************************************************)
(* A model of PhiFlow's extrapolation subsystem                            *)
(* (phi/math/_extrapolation.py), of the geometry embedding utilities       *)
(* (phi/geom/_transform.py), of the unstructured mesh                      *)
(* (phi/geom/_mesh.py) and of the network training demo                    *)
(* (demos/network_training_pytorch.py).                                    *)
(*                                                                         *)
(* Every operation of the library is a computation on values, so the state *)
(* machine is a sequence of calls: `call` records the operation and its    *)
(* arguments, `ret` what the operation returned or raised.  `files` is the *)
(* file system that mesh archives and checkpoints are written to, `meshes` *)
(* the Mesh values the caller holds, `demo` the state of the training      *)
(* script: the statement it is at, the viewer and what it has done so far. *)
(***************************************************************************)
EXTENDS Integers, Sequences, FiniteSets, TLC

VARIABLES call, ret, files, meshes, demo

vars == <<call, ret, files, meshes, demo>>

\* no file written, no Mesh held, no training script running
NoFiles == <<>>

NoMeshes == <<>>

NoDemo == [pc |-> "none"]

(***************************************************************************)
(* Bounds of the model.                                                    *)
(***************************************************************************)
MaxConst == 2       \* constant extrapolation values are 0..MaxConst
MaxSize == 3        \* axis sizes are 1..MaxSize
MaxCoord == 7       \* integer coordinates are -MaxCoord..MaxCoord
MaxWidth == 2       \* the pad width of a slot is 0 or MaxWidth
MaxLoc == 1         \* location components are -MaxLoc..MaxLoc

Axes == {"x", "y"}

(***************************************************************************)
(* Python exceptions: a raised exception is a record with the exception    *)
(* type and its constructor arguments.                                     *)
(***************************************************************************)
Raise(exc, args) == [raise |-> exc, args |-> args]

IsRaise(r) == "raise" \in DOMAIN r

\* min(a, b) and max(a, b) where the module binds no name min or max: the
\* builtins of Python.  min(a, b) evaluates b < a and max(a, b) evaluates
\* b > a; for a tensor a and a dimension function or a str b neither
\* operand supports the comparison.
builtin_min(a, b) ==
    Raise("TypeError", <<"'<' not supported between instances of 'function' and 'Tensor'">>)

builtin_max(a, b) ==
    Raise("TypeError", <<"'>' not supported between instances of 'function' and 'Tensor'">>)

\* any(a, b) where the module binds no name any: the builtin takes one
\* argument
builtin_any(a, b) == Raise("TypeError", <<"any() takes exactly one argument (2 given)">>)

\* A Python dict is the sequence of its items in iteration order.
Item(key, value) == [key |-> key, value |-> value]

PyDict(items) == [dict |-> items]

Keys(d) == {d.dict[i].key : i \in 1..Len(d.dict)}

Lookup(d, key) == d.dict[CHOOSE i \in 1..Len(d.dict) : d.dict[i].key = key].value

\* class IncompatibleExtrapolations(ValueError), built from both operands
IncompatibleExtrapolations(extrapolation1, extrapolation2) ==
    Raise("IncompatibleExtrapolations", <<extrapolation1, extrapolation2>>)

\* The Python exception hierarchy the module relies on: an error of class
\* exc is an instance of class base.
IsInstanceOfError(exc, base) ==
    \/ exc = base
    \/ exc = "IncompatibleExtrapolations" /\ base = "ValueError"

(***************************************************************************)
(* Tensor values of constant extrapolations: rationals n/d in lowest       *)
(* terms, d > 0;  d = 0 encodes the IEEE results of a division by zero     *)
(* (n = 1: inf, n = -1: -inf, n = 0: nan).                                 *)
(***************************************************************************)
Abs(i) == IF i < 0 THEN -i ELSE i

Sign(i) == IF i < 0 THEN -1 ELSE IF i > 0 THEN 1 ELSE 0

RECURSIVE GCD(_, _)
GCD(a, b) == IF b = 0 THEN a ELSE GCD(b, a % b)

Rat(n, d) ==
    IF d = 0 THEN [n |-> Sign(n), d |-> 0]
    ELSE LET g == GCD(Abs(n), Abs(d))
         IN  [n |-> (Sign(d) * n) \div g, d |-> Abs(d) \div g]

tensor(i) == Rat(i, 1)

\* a + b: two infinities of one sign add to that infinity, of opposite signs
\* to nan
ValAdd(a, b) ==
    IF a.d = 0 /\ b.d = 0 /\ a.n # 0 /\ b.n # 0
    THEN [n |-> IF a.n = b.n THEN a.n ELSE 0, d |-> 0]
    ELSE Rat(a.n * b.d + b.n * a.d, a.d * b.d)

\* a - b: infinities of opposite signs give the infinity of a, of one sign nan
ValSub(a, b) ==
    IF a.d = 0 /\ b.d = 0 /\ a.n # 0 /\ b.n # 0
    THEN [n |-> IF a.n # b.n THEN a.n ELSE 0, d |-> 0]
    ELSE Rat(a.n * b.d - b.n * a.d, a.d * b.d)

ValMul(a, b) == Rat(a.n * b.n, a.d * b.d)

\* a / b: an infinity divided by a finite value takes the sign of both
ValDiv(a, b) ==
    IF a.d = 0 /\ b.d # 0
    THEN [n |-> IF b.n < 0 THEN -a.n ELSE a.n, d |-> 0]
    ELSE Rat(a.n * b.d, a.d * b.n)

\* math.close with its default tolerances: nan is close to nothing
close(a, b) == a = b /\ ~(a.n = 0 /\ a.d = 0)

(***************************************************************************)
(* Extrapolation objects.  A simple extrapolation is a record with its     *)
(* class and pad_rank (and, for ConstantExtrapolation, its value); a       *)
(* MixedExtrapolation holds the dict `ext` as the sequence of its keys in  *)
(* iteration order and the (lower, upper) pair of each key, and, because   *)
(* the class defines no __eq__, the identity `id` of the object.           *)
(***************************************************************************)
ConstantExtrapolation(value) ==
    [cls |-> "ConstantExtrapolation", pad_rank |-> 5, value |-> value]

_CopyExtrapolation(cls, pad_rank) == [cls |-> cls, pad_rank |-> pad_rank]

ZERO == ConstantExtrapolation(tensor(0))

ONE == ConstantExtrapolation(tensor(1))

PERIODIC == _CopyExtrapolation("_PeriodicExtrapolation", 1)

BOUNDARY == _CopyExtrapolation("_BoundaryExtrapolation", 2)

SYMMETRIC == _CopyExtrapolation("_SymmetricExtrapolation", 3)

REFLECT == _CopyExtrapolation("_ReflectExtrapolation", 4)

CopyClasses ==
    {"_PeriodicExtrapolation", "_BoundaryExtrapolation",
     "_SymmetricExtrapolation", "_ReflectExtrapolation"}

IsConstant(e) == ~IsRaise(e) /\ e.cls = "ConstantExtrapolation"

IsCopy(e) == ~IsRaise(e) /\ e.cls \in CopyClasses

IsMixed(e) == ~IsRaise(e) /\ e.cls = "MixedExtrapolation"

\* MixedExtrapolation.__init__: pad_rank None, ext the per-axis pairs
MixedExtrapolation(id, keys, ext) ==
    [cls |-> "MixedExtrapolation", id |-> id, keys |-> keys, ext |-> ext]

\* __repr__ of the copy-style classes
repr(e) ==
    CASE e.cls = "_BoundaryExtrapolation" -> "boundary"
      [] e.cls = "_PeriodicExtrapolation" -> "periodic"
      [] e.cls = "_SymmetricExtrapolation" -> "symmetric"
      [] e.cls = "_ReflectExtrapolation" -> "reflect"

\* a == b as Python evaluates it: ConstantExtrapolation.__eq__,
\* _CopyExtrapolation.__eq__, and object identity for MixedExtrapolation
ExtEq(a, b) ==
    CASE IsConstant(a) -> IsConstant(b) /\ close(a.value, b.value)
      [] IsCopy(a) -> b.cls = a.cls
      [] IsMixed(a) -> IsMixed(b) /\ a.id = b.id

is_zero(e) == ExtEq(e, ZERO)

is_one(e) == ExtEq(e, ONE)

(***************************************************************************)
(* ConstantExtrapolation arithmetic.                                       *)
(***************************************************************************)
Constant__add__(self, other) ==
    IF IsConstant(other) THEN ConstantExtrapolation(ValAdd(self.value, other.value))
    ELSE IF is_zero(self) THEN other
    ELSE IncompatibleExtrapolations(self, other)

\* __sub__ written like __rsub__: a zero on the left returns the other operand
Constant__sub__ZeroShortcut(self, other) ==
    IF IsConstant(other) THEN ConstantExtrapolation(ValSub(self.value, other.value))
    ELSE IF is_zero(self) THEN other
    ELSE IncompatibleExtrapolations(self, other)

Constant__sub__(self, other) ==
    IF IsConstant(other) THEN ConstantExtrapolation(ValSub(self.value, other.value))
    ELSE IncompatibleExtrapolations(self, other)

Constant__rsub__(self, other) ==
    IF IsConstant(other) THEN ConstantExtrapolation(ValSub(other.value, self.value))
    ELSE IF is_zero(self) THEN other
    ELSE IncompatibleExtrapolations(self, other)

Constant__mul__(self, other) ==
    IF IsConstant(other) THEN ConstantExtrapolation(ValMul(self.value, other.value))
    ELSE IF is_one(self) THEN other
    ELSE IF is_zero(self) THEN self
    ELSE IncompatibleExtrapolations(self, other)

Constant__truediv__(self, other) ==
    IF IsConstant(other) THEN ConstantExtrapolation(ValDiv(self.value, other.value))
    ELSE IF is_zero(self) THEN self
    ELSE IncompatibleExtrapolations(self, other)

Constant__rtruediv__(self, other) ==
    IF IsConstant(other) THEN ConstantExtrapolation(ValDiv(other.value, self.value))
    ELSE IF is_one(self) THEN other
    ELSE IncompatibleExtrapolations(self, other)

(***************************************************************************)
(* Attribute lookup and operator dispatch.  The methods each class         *)
(* defines for + - * / ; a Python binary operator calls the left           *)
(* operand's method, falls back on the right operand's reflected method    *)
(* when the left class has none and the classes differ, and raises         *)
(* TypeError otherwise.                                                    *)
(***************************************************************************)
Methods(e) ==
    CASE IsConstant(e) -> {"__add__", "__sub__", "__rsub__", "__mul__",
                           "__truediv__", "__rtruediv__"}
      [] IsCopy(e) -> {"__add__", "__mul__", "__sub__", "__truediv__"}
      [] IsMixed(e) -> {"__add__", "__sub__", "__mul__"}

Operators == {"add", "sub", "mul", "truediv"}

MethodOf(op) ==
    CASE op = "add" -> "__add__" [] op = "sub" -> "__sub__"
      [] op = "mul" -> "__mul__" [] op = "truediv" -> "__truediv__"

ReflectedOf(op) ==
    CASE op = "add" -> "__radd__" [] op = "sub" -> "__rsub__"
      [] op = "mul" -> "__rmul__" [] op = "truediv" -> "__rtruediv__"

RECURSIVE getattr(_, _, _)
RECURSIVE PyBinOp(_, _, _)

\* the first exception raised while the entries are computed in order, or
\* the value built from them
FirstRaise(results, value) ==
    IF \E i \in 1..Len(results) : IsRaise(results[i])
    THEN results[CHOOSE i \in 1..Len(results) :
                    /\ IsRaise(results[i])
                    /\ \A j \in 1..(i - 1) : ~IsRaise(results[j])]
    ELSE value

(***************************************************************************)
(* MixedExtrapolation arithmetic: `operator` is applied per axis and per   *)
(* side, in the iteration order of self.ext, lower before upper.           *)
(***************************************************************************)
Mixed_op2(self, other, op) ==
    IF IsMixed(other)
    THEN IF {self.keys[i] : i \in 1..Len(self.keys)}
              # {other.keys[i] : i \in 1..Len(other.keys)}
         THEN Raise("AssertionError", <<>>)
         ELSE LET ext == [ax \in DOMAIN self.ext |->
                            <<PyBinOp(self.ext[ax][1], other.ext[ax][1], op),
                              PyBinOp(self.ext[ax][2], other.ext[ax][2], op)>>]
                  results == [i \in 1..(2 * Len(self.keys)) |->
                                ext[self.keys[(i + 1) \div 2]][2 - (i % 2)]]
              IN  FirstRaise(results, MixedExtrapolation("new", self.keys, ext))
    ELSE LET ext == [ax \in DOMAIN self.ext |->
                       <<PyBinOp(self.ext[ax][1], other, op),
                         PyBinOp(self.ext[ax][2], other, op)>>]
             results == [i \in 1..(2 * Len(self.keys)) |->
                           ext[self.keys[(i + 1) \div 2]][2 - (i % 2)]]
         IN  FirstRaise(results, MixedExtrapolation("new", self.keys, ext))

Mixed__add__(self, other) == Mixed_op2(self, other, "add")

Mixed__sub__(self, other) == Mixed_op2(self, other, "sub")

Mixed__mul__(self, other) == Mixed_op2(self, other, "mul")

(***************************************************************************)
(* _CopyExtrapolation arithmetic: _op receives the ConstantExtrapolation   *)
(* method whose name is looked up on the other operand.                    *)
(***************************************************************************)
Copy_op(self, other, op_name) ==
    IF other.cls = self.cls THEN self
    ELSE IF ~IsCopy(other) THEN getattr(other, op_name, self)
    ELSE IncompatibleExtrapolations(self, other)

Copy__add__(self, other) == Copy_op(self, other, "__add__")

Copy__mul__(self, other) == Copy_op(self, other, "__mul__")

\* __sub__ handing _op the non-reflected ConstantExtrapolation.__sub__
Copy__sub__NotReflected(self, other) == Copy_op(self, other, "__sub__")

Copy__sub__(self, other) == Copy_op(self, other, "__rsub__")

Copy__truediv__(self, other) == Copy_op(self, other, "__rtruediv__")

\* getattr(obj, name)(arg)
getattr(obj, name, arg) ==
    IF name \notin Methods(obj) THEN Raise("AttributeError", <<obj.cls, name>>)
    ELSE CASE IsConstant(obj) /\ name = "__add__" -> Constant__add__(obj, arg)
           [] IsConstant(obj) /\ name = "__sub__" -> Constant__sub__(obj, arg)
           [] IsConstant(obj) /\ name = "__rsub__" -> Constant__rsub__(obj, arg)
           [] IsConstant(obj) /\ name = "__mul__" -> Constant__mul__(obj, arg)
           [] IsConstant(obj) /\ name = "__truediv__" -> Constant__truediv__(obj, arg)
           [] IsConstant(obj) /\ name = "__rtruediv__" -> Constant__rtruediv__(obj, arg)
           [] IsCopy(obj) /\ name = "__add__" -> Copy__add__(obj, arg)
           [] IsCopy(obj) /\ name = "__mul__" -> Copy__mul__(obj, arg)
           [] IsCopy(obj) /\ name = "__sub__" -> Copy__sub__(obj, arg)
           [] IsCopy(obj) /\ name = "__truediv__" -> Copy__truediv__(obj, arg)
           [] IsMixed(obj) /\ name = "__add__" -> Mixed__add__(obj, arg)
           [] IsMixed(obj) /\ name = "__sub__" -> Mixed__sub__(obj, arg)
           [] IsMixed(obj) /\ name = "__mul__" -> Mixed__mul__(obj, arg)

\* a <op> b
PyBinOp(a, b, op) ==
    IF MethodOf(op) \in Methods(a) THEN getattr(a, MethodOf(op), b)
    ELSE IF a.cls # b.cls /\ ReflectedOf(op) \in Methods(b)
         THEN getattr(b, ReflectedOf(op), a)
    ELSE Raise("TypeError", <<op, a.cls, b.cls>>)

(***************************************************************************)
(* gradient().  No extrapolation class defines __neg__, so the unary minus *)
(* of -self raises TypeError.                                              *)
(***************************************************************************)
PyNeg(e) == Raise("TypeError", <<"neg", e.cls>>)

Constant_gradient(self) == ZERO

Boundary_gradient(self) == ZERO

Periodic_gradient(self) == self

Symmetric_gradient(self) == PyNeg(self)

Reflect_gradient(self) == PyNeg(self)

SimpleGradient(e) ==
    CASE e.cls = "ConstantExtrapolation" -> Constant_gradient(e)
      [] e.cls = "_BoundaryExtrapolation" -> Boundary_gradient(e)
      [] e.cls = "_PeriodicExtrapolation" -> Periodic_gradient(e)
      [] e.cls = "_SymmetricExtrapolation" -> Symmetric_gradient(e)
      [] e.cls = "_ReflectExtrapolation" -> Reflect_gradient(e)

Mixed_gradient(self) ==
    LET ext == [ax \in DOMAIN self.ext |->
                  <<SimpleGradient(self.ext[ax][1]), SimpleGradient(self.ext[ax][2])>>]
        results == [i \in 1..(2 * Len(self.keys)) |->
                      ext[self.keys[(i + 1) \div 2]][2 - (i % 2)]]
    IN  FirstRaise(results, MixedExtrapolation("new", self.keys, ext))

gradient(e) == IF IsMixed(e) THEN Mixed_gradient(e) ELSE SimpleGradient(e)

(***************************************************************************)
(* Serialization.  A dictionary is a record with the key 'type' and, by    *)
(* type, 'value' or 'axes'.                                                *)
(***************************************************************************)
Constant_to_dict(self) == [type |-> "constant", value |-> self.value]

Copy_to_dict(self) == [type |-> repr(self)]

SimpleToDict(e) == IF IsConstant(e) THEN Constant_to_dict(e) ELSE Copy_to_dict(e)

Mixed_to_dict(self) ==
    [type |-> "mixed",
     axes |-> [ax \in DOMAIN self.ext |->
                 <<SimpleToDict(self.ext[ax][1]), SimpleToDict(self.ext[ax][2])>>]]

to_dict(e) == IF IsMixed(e) THEN Mixed_to_dict(e) ELSE SimpleToDict(e)

from_dict(dictionary) ==
    LET etype == dictionary.type
    IN  CASE etype = "constant" -> ConstantExtrapolation(dictionary.value)
          [] etype = "periodic" -> PERIODIC
          [] etype = "boundary" -> BOUNDARY
          [] etype = "symmetric" -> SYMMETRIC
          [] etype = "reflect" -> REFLECT
          [] OTHER -> Raise("ValueError", <<dictionary>>)

(***************************************************************************)
(* The extrapolations the calls are made with.                             *)
(***************************************************************************)
Constants == {ConstantExtrapolation(tensor(v)) : v \in 0..MaxConst}

Simple == Constants \cup {PERIODIC, BOUNDARY, SYMMETRIC, REFLECT}

KeySet(keys) == {keys[i] : i \in 1..Len(keys)}

MixedOver(id, keys, entries) ==
    {MixedExtrapolation(id, keys, ext) :
        ext \in [KeySet(keys) -> entries \X entries]}

\* the entries of the mixed extrapolations used in arithmetic
AlgebraEntries == {ZERO, ONE, PERIODIC}

AlgebraMixed(id, orders) ==
    UNION {MixedOver(id, keys, AlgebraEntries) : keys \in orders}

LeftMixed == AlgebraMixed("lhs", {<<"x">>, <<"y", "x">>})

RightMixed == AlgebraMixed("rhs", {<<"x">>, <<"x", "y">>})

(***************************************************************************)
(* Calls of the algebra, gradient and serialization operations.  Every     *)
(* behaviour is one call: the initial state holds the operation and its    *)
(* arguments, the action of the operation computes what it returns.        *)
(***************************************************************************)
Call(fn, args) == [fn |-> fn, args |-> args]

Pending == [pending |-> TRUE]

InitAlgebra ==
    /\ ret = Pending
    /\ files = NoFiles
    /\ demo = NoDemo
    /\ meshes = NoMeshes
    /\ \/ \E a \in Simple \cup LeftMixed, b \in Simple \cup RightMixed,
             op \in Operators :
             call = Call(op, <<a, b>>)
       \/ \E e \in Simple \cup LeftMixed, fn \in {"gradient", "roundtrip"} :
             call = Call(fn, <<e>>)

\* a <op> b
Arith ==
    /\ ret = Pending
    /\ call.fn \in Operators
    /\ ret' = PyBinOp(call.args[1], call.args[2], call.fn)
    /\ UNCHANGED <<call, files, meshes, demo>>

\* e.gradient()
Gradient ==
    /\ ret = Pending
    /\ call.fn = "gradient"
    /\ ret' = gradient(call.args[1])
    /\ UNCHANGED <<call, files, meshes, demo>>

\* from_dict(e.to_dict())
RoundTrip ==
    /\ ret = Pending
    /\ call.fn = "roundtrip"
    /\ ret' = from_dict(to_dict(call.args[1]))
    /\ UNCHANGED <<call, files, meshes, demo>>

NextAlgebra ==
    \/ Arith
    \/ Gradient
    \/ RoundTrip

SpecAlgebra == InitAlgebra /\ [][NextAlgebra]_vars

(***************************************************************************)
(* Properties of the algebra, gradient and serialization operations.       *)
(***************************************************************************)
Returned == ret # Pending

Arg1 == call.args[1]

Arg2 == call.args[2]

\* the error kind InvalidInput: ValueError and its subclasses, and the
\* failed assertion on the arguments
IsInvalidInput(r) ==
    /\ IsRaise(r)
    /\ \/ IsInstanceOfError(r.raise, "ValueError")
       \/ r.raise = "AssertionError"

\* C1: from_dict(e.to_dict()) returns an extrapolation equal to e under
\* __eq__, for the six named variants and for a MixedExtrapolation built
\* from them.
C1_RoundTripEqual ==
    (call.fn = "roundtrip" /\ Returned) =>
        (~IsRaise(ret) /\ ExtEq(ret, Arg1))

\* The round trip of a simple extrapolation does return an equal one.
RoundTripSimple ==
    (call.fn = "roundtrip" /\ Returned /\ ~IsMixed(Arg1)) =>
        (~IsRaise(ret) /\ ExtEq(ret, Arg1))

\* C2: gradient() of a simple extrapolation follows the table constant ->
\* ZERO, periodic -> itself, boundary -> ZERO, symmetric and reflect -> an
\* extrapolation (the negated self), and never fails.
C2_GradientTable ==
    (call.fn = "gradient" /\ Returned /\ ~IsMixed(Arg1)) =>
        /\ ~IsRaise(ret)
        /\ IsConstant(Arg1) => ret = ZERO
        /\ Arg1 = PERIODIC => ret = PERIODIC
        /\ Arg1 = BOUNDARY => ret = ZERO

\* C3: with a constant c on the left and a non-constant X on the right,
\* c + X = X for c zero, c * X = X for c one, c * X = c for c zero,
\* c / X = c for c zero, and every other combination under + - * / raises
\* IncompatibleExtrapolations (a ValueError) carrying (c, X).
C3_ConstantLeft ==
    (call.fn \in Operators /\ Returned /\ IsConstant(Arg1) /\ ~IsConstant(Arg2)) =>
        LET c == Arg1
            X == Arg2
            zero == c.value = tensor(0)
            one == c.value = tensor(1)
        IN  CASE call.fn = "add" /\ zero -> ret = X
              [] call.fn = "mul" /\ one -> ret = X
              [] call.fn = "mul" /\ zero -> ret = c
              [] call.fn = "truediv" /\ zero -> ret = c
              [] OTHER -> /\ IsRaise(ret)
                          /\ ret.raise = "IncompatibleExtrapolations"
                          /\ IsInstanceOfError(ret.raise, "ValueError")
                          /\ ret.args = <<c, X>>

\* 0 - X has been evaluated and raised; 1 * X has returned X elsewhere
C3_Witness ==
    /\ call.fn = "sub"
    /\ Arg1 = ZERO
    /\ Arg2 = BOUNDARY
    /\ Returned
    /\ IsRaise(ret)

\* C4: with a copy-style a on the left, a constant c on the right gives
\* c + a, c * a, c.__rsub__(a), c.__rtruediv__(a); a copy-style right
\* operand of another type raises IncompatibleExtrapolations.
C4_CopyLeft ==
    (call.fn \in Operators /\ Returned /\ IsCopy(Arg1)) =>
        LET a == Arg1
            c == Arg2
        IN  /\ IsConstant(c) =>
                 CASE call.fn = "add" ->
                        ret = IF c = ZERO THEN a ELSE IncompatibleExtrapolations(c, a)
                   [] call.fn = "mul" ->
                        ret = IF c = ONE THEN a
                              ELSE IF c = ZERO THEN c
                              ELSE IncompatibleExtrapolations(c, a)
                   [] call.fn = "sub" ->
                        ret = IF c = ZERO THEN a ELSE IncompatibleExtrapolations(c, a)
                   [] call.fn = "truediv" ->
                        ret = IF c = ONE THEN a ELSE IncompatibleExtrapolations(c, a)
            /\ (IsCopy(c) /\ c.cls # a.cls) => ret = IncompatibleExtrapolations(a, c)

\* a - 0 has returned a through ZERO.__rsub__(a)
C4_Witness ==
    /\ call.fn = "sub"
    /\ IsCopy(Arg1)
    /\ Arg2 = ZERO
    /\ ret = Arg1

\* lower with lower and upper with upper, per axis
PerAxis(a, b, op) ==
    [ax \in DOMAIN a.ext |->
        <<PyBinOp(a.ext[ax][1], b.ext[ax][1], op),
          PyBinOp(a.ext[ax][2], b.ext[ax][2], op)>>]

\* the operand b with every axis and side of a
Broadcast(a, b, op) ==
    [ax \in DOMAIN a.ext |->
        <<PyBinOp(a.ext[ax][1], b, op), PyBinOp(a.ext[ax][2], b, op)>>]

AllDefined(ext) == \A ax \in DOMAIN ext : ~IsRaise(ext[ax][1]) /\ ~IsRaise(ext[ax][2])

MixedArithmetic(ops) ==
    (call.fn \in ops /\ Returned /\ IsMixed(Arg1)) =>
        LET a == Arg1
            b == Arg2
        IN  IF IsMixed(b)
            THEN IF DOMAIN a.ext = DOMAIN b.ext
                 THEN AllDefined(PerAxis(a, b, call.fn)) =>
                          (IsMixed(ret) /\ ret.ext = PerAxis(a, b, call.fn))
                 ELSE IsInvalidInput(ret)
            ELSE AllDefined(Broadcast(a, b, call.fn)) =>
                     (IsMixed(ret) /\ ret.ext = Broadcast(a, b, call.fn))

\* C5: + - * / of two MixedExtrapolations with the same axis keys combines
\* lower with lower and upper with upper per axis, with different axis keys
\* it fails with InvalidInput, and a non-mixed right operand is combined
\* with every axis and side.
C5_MixedArithmetic == MixedArithmetic(Operators)

\* The same for + - * alone, the operators MixedExtrapolation defines.
MixedAddSubMul == MixedArithmetic({"add", "sub", "mul"})

(***************************************************************************)
(* Padding.  A tensor is modelled by its shape and by the history of the   *)
(* native pad passes applied to it: each pass is the extrapolation that    *)
(* padded and the (lower, upper) widths per axis it was given.             *)
(***************************************************************************)
PadSize == 2        \* the size of every axis of the tensor that is padded

Tensor(shape, history) == [shape |-> shape, history |-> history]

\* ConstantExtrapolation.pad / _CopyExtrapolation.pad of a native tensor:
\* axes missing from widths get (0, 0), the shape grows by the widths
Simple_pad(self, value, widths) ==
    LET ordered_pad_widths ==
            [ax \in DOMAIN value.shape |->
                IF ax \in DOMAIN widths THEN widths[ax] ELSE <<0, 0>>]
    IN  Tensor([ax \in DOMAIN value.shape |->
                    value.shape[ax] + ordered_pad_widths[ax][1]
                                    + ordered_pad_widths[ax][2]],
               Append(value.history, [ext |-> self, widths |-> widths]))

\* a sequence enumerating the set S, in any order
Orders(S) ==
    {f \in [1..Cardinality(S) -> S] :
        \A i, j \in 1..Cardinality(S) : i # j => f[i] # f[j]}

\* sorted(seq, key=lambda e: e.pad_rank), reversed
RECURSIVE SortedDescending(_)
SortedDescending(seq) ==
    IF seq = <<>> THEN <<>>
    ELSE LET n == Len(seq)
             rest == SortedDescending(SubSeq(seq, 1, n - 1))
             k == Cardinality({i \in 1..Len(rest) : rest[i].pad_rank >= seq[n].pad_rank})
         IN  SubSeq(rest, 1, k) \o <<seq[n]>> \o SubSeq(rest, k + 1, Len(rest))

\* sorted(seq, key=lambda e: e.pad_rank): ascending and stable
RECURSIVE sorted(_)
sorted(seq) ==
    IF seq = <<>> THEN <<>>
    ELSE LET n == Len(seq)
             rest == sorted(SubSeq(seq, 1, n - 1))
             k == Cardinality({i \in 1..Len(rest) : rest[i].pad_rank <= seq[n].pad_rank})
         IN  SubSeq(rest, 1, k) \o <<seq[n]>> \o SubSeq(rest, k + 1, Len(rest))

\* {ax: ... self.ext[ax] ... for ax, (l, u) in widths.items()}: the items
\* are visited in the iteration order of widths, and the first axis that
\* self.ext lacks raises KeyError
ExtWidths(self, ext, widths) ==
    LET items == widths.dict
        missing == {i \in 1..Len(items) : items[i].key \notin DOMAIN self.ext}
    IN  IF missing # {}
        THEN Raise("KeyError", <<items[CHOOSE i \in missing : \A j \in missing : i <= j].key>>)
        ELSE [ax \in Keys(widths) |->
                 <<IF ExtEq(self.ext[ax][1], ext) THEN Lookup(widths, ax)[1] ELSE 0,
                   IF ExtEq(self.ext[ax][2], ext) THEN Lookup(widths, ax)[2] ELSE 0>>]

\* the passes of MixedExtrapolation.pad over the sorted extrapolations
RECURSIVE PadPasses(_, _, _, _)
PadPasses(self, extrapolations, value, widths) ==
    IF extrapolations = <<>> THEN value
    ELSE LET ext == Head(extrapolations)
             ext_widths == ExtWidths(self, ext, widths)
         IN  IF "raise" \in DOMAIN ext_widths THEN ext_widths
             ELSE PadPasses(self, Tail(extrapolations),
                            Simple_pad(ext, value, ext_widths), widths)

\* MixedExtrapolation.pad; set_order is the iteration order of the set of
\* the extrapolations of self.ext, widths a dict.  Without extrapolations
\* there is no pass and the value is returned.
Mixed_pad(self, value, widths, set_order) ==
    PadPasses(self, sorted(set_order), value, widths)

\* set(sum(self.ext.values(), ()))
ExtrapolationSet(self) ==
    UNION {{self.ext[ax][1], self.ext[ax][2]} : ax \in DOMAIN self.ext}

PadEntries == {ZERO, ONE, PERIODIC, BOUNDARY, SYMMETRIC, REFLECT}

PadMixed ==
    MixedOver("lhs", <<"x", "y">>, PadEntries)
    \cup MixedOver("lhs", <<"x">>, {ZERO, PERIODIC, REFLECT})
    \cup MixedOver("lhs", <<"z">>, {ZERO, BOUNDARY})
    \cup MixedOver("lhs", <<>>, {})

\* the dicts over both axes, in both orders of insertion, and over x alone
WidthDicts ==
    {PyDict(<<Item(order[1], w[order[1]]), Item(order[2], w[order[2]])>>) :
        order \in {<<"x", "y">>, <<"y", "x">>},
        w \in [Axes -> {0, MaxWidth} \X {0, MaxWidth}]}
    \cup {PyDict(<<Item("x", w)>>) : w \in {0, MaxWidth} \X {0, MaxWidth}}

\* the widths of a dict by axis
WidthsByAxis(widths) == [ax \in Keys(widths) |-> Lookup(widths, ax)]

InitPad ==
    /\ ret = Pending
    /\ files = NoFiles
    /\ demo = NoDemo
    /\ meshes = NoMeshes
    /\ \E m \in PadMixed, widths \in WidthDicts :
          call = Call("pad", <<m, widths>>)

\* m.pad(value, widths)
Pad ==
    /\ ret = Pending
    /\ call.fn = "pad"
    /\ \E set_order \in Orders(ExtrapolationSet(call.args[1])) :
          ret' = Mixed_pad(call.args[1], Tensor([ax \in Axes |-> PadSize], <<>>),
                           call.args[2], set_order)
    /\ UNCHANGED <<call, files, meshes, demo>>

NextPad == Pad

SpecPad == InitPad /\ [][NextPad]_vars

Slots(widths) == (DOMAIN widths) \X {1, 2}

\* the passes of the returned tensor are the distinct policies of m in
\* ascending pad_rank, each with the requested width on the slots of widths
\* that its policy occupies and 0 elsewhere, so that every slot of widths
\* is padded exactly once, by its owner
PaddedByOwner(m, widths, r) ==
    /\ ~IsRaise(r)
    /\ LET passes == r.history
           n == Len(passes)
       IN  /\ \A i, j \in 1..n : i < j => passes[i].ext.pad_rank <= passes[j].ext.pad_rank
           /\ \A i, j \in 1..n : i # j => passes[i].ext # passes[j].ext
           /\ {passes[i].ext : i \in 1..n} = ExtrapolationSet(m)
           /\ \A s \in Slots(widths) :
                 /\ s[1] \in DOMAIN m.ext
                 /\ \A i \in 1..n :
                       passes[i].widths[s[1]][s[2]] =
                           IF m.ext[s[1]][s[2]] = passes[i].ext
                           THEN widths[s[1]][s[2]] ELSE 0
                 /\ Cardinality({i \in 1..n : m.ext[s[1]][s[2]] = passes[i].ext}) = 1
           /\ \A ax \in Axes :
                 r.shape[ax] = IF ax \in DOMAIN widths
                               THEN PadSize + widths[ax][1] + widths[ax][2]
                               ELSE PadSize

\* C6 as stated: MixedExtrapolation.pad applies its distinct policies in
\* ascending pad_rank order whatever the iteration order, each pass gets
\* the requested width on the slots its policy occupies and 0 elsewhere,
\* so every slot of widths is padded exactly once, by its owner.
C6_PadOrder ==
    (call.fn = "pad" /\ Returned) => PaddedByOwner(Arg1, WidthsByAxis(Arg2), ret)

\* C6 as amended: the same for widths whose axes are all axes of the
\* extrapolation.
C6_PadOrderOwnAxes ==
    (call.fn = "pad" /\ Returned /\ Keys(Arg2) \subseteq DOMAIN Arg1.ext) =>
        PaddedByOwner(Arg1, WidthsByAxis(Arg2), ret)

\* an axis that the extrapolation lacks is refused by the first pass, the
\* first such axis in the order of widths being reported; without a pass
\* the value is returned as it is
PadOfUnknownAxis ==
    (call.fn = "pad" /\ Returned /\ \E ax \in Keys(Arg2) : ax \notin DOMAIN Arg1.ext) =>
        IF ExtrapolationSet(Arg1) = {}
        THEN ret = Tensor([ax \in Axes |-> PadSize], <<>>)
        ELSE /\ IsRaise(ret)
             /\ ret.raise = "KeyError"
             /\ \E i \in 1..Len(Arg2.dict) :
                   /\ ret.args = <<Arg2.dict[i].key>>
                   /\ \A j \in 1..(i - 1) : Arg2.dict[j].key \in DOMAIN Arg1.ext

\* the second axis of widths is refused where the first is unknown as well
KeyErrorOfFirstAxis ==
    /\ call.fn = "pad"
    /\ Returned
    /\ IsRaise(ret)
    /\ ret.args = <<"y">>
    /\ Arg2.dict[1].key = "y"
    /\ "x" \notin DOMAIN Arg1.ext

\* an extrapolation over x and y has padded x alone
PadOfOneAxis ==
    /\ call.fn = "pad"
    /\ Returned
    /\ ~IsRaise(ret)
    /\ Keys(Arg2) = {"x"}
    /\ DOMAIN Arg1.ext = {"x", "y"}
    /\ Len(ret.history) = 2
    /\ ret.shape["x"] = PadSize + 2 * MaxWidth
    /\ ret.shape["y"] = PadSize

\* four policies, a constant among them, have padded one slot each
C6_Witness ==
    /\ call.fn = "pad"
    /\ Returned
    /\ ~IsRaise(ret)
    /\ Len(ret.history) = 4
    /\ ret.history[1].ext = PERIODIC
    /\ ret.history[4].ext = ONE
    /\ \A s \in Slots(WidthsByAxis(Arg2)) : WidthsByAxis(Arg2)[s[1]][s[2]] > 0

(***************************************************************************)
(* Coordinate transforms.  Coordinates are integer tensors; the result is  *)
(* the tensor of transformed coordinates or the exception raised.  The     *)
(* remainder of a division by zero depends on the backend that holds the   *)
(* coordinates: NumPy returns 0 (with a warning), Python integers and      *)
(* PyTorch raise ZeroDivisionError.                                        *)
(***************************************************************************)
Backends == {"numpy", "torch"}

Value(v) == [value |-> v]

\* coordinates % divisor, elementwise
Mod(coordinates, divisor, backend) ==
    IF divisor = 0
    THEN IF backend = "numpy"
         THEN Value([i \in DOMAIN coordinates |-> 0])
         ELSE Raise("ZeroDivisionError", <<>>)
    ELSE Value([i \in DOMAIN coordinates |-> coordinates[i] % divisor])

\* math.clip(coordinates, 0, shape - 1)
Extrapolation_transform_coordinates(coordinates, shape, backend) ==
    Value([i \in DOMAIN coordinates |->
             IF coordinates[i] < 0 THEN 0
             ELSE IF coordinates[i] > shape - 1 THEN shape - 1
             ELSE coordinates[i]])

Periodic_transform_coordinates(coordinates, shape, backend) ==
    Mod(coordinates, shape, backend)

\* the fold of _ReflectExtrapolation applied by _SymmetricExtrapolation
Symmetric_transform_coordinates_AsReflect(coordinates, shape, backend) ==
    LET m == Mod(coordinates, 2 * shape - 2, backend)
    IN  IF IsRaise(m) THEN m
        ELSE Value([i \in DOMAIN coordinates |->
                      (shape - 1) - Abs((shape - 1) - m.value[i])])

Symmetric_transform_coordinates(coordinates, shape, backend) ==
    LET m == Mod(coordinates, 2 * shape, backend)
    IN  IF IsRaise(m) THEN m
        ELSE Value([i \in DOMAIN coordinates |->
                      ((2 * shape - 1) - Abs((2 * shape - 1) - 2 * m.value[i])) \div 2])

Reflect_transform_coordinates(coordinates, shape, backend) ==
    LET m == Mod(coordinates, 2 * shape - 2, backend)
    IN  IF IsRaise(m) THEN m
        ELSE Value([i \in DOMAIN coordinates |->
                      (shape - 1) - Abs((shape - 1) - m.value[i])])

Simple_transform_coordinates(e, coordinates, shape, backend) ==
    CASE e.cls = "_PeriodicExtrapolation" ->
            Periodic_transform_coordinates(coordinates, shape, backend)
      [] e.cls = "_SymmetricExtrapolation" ->
            Symmetric_transform_coordinates(coordinates, shape, backend)
      [] e.cls = "_ReflectExtrapolation" ->
            Reflect_transform_coordinates(coordinates, shape, backend)
      [] OTHER -> Extrapolation_transform_coordinates(coordinates, shape, backend)

\* one axis of MixedExtrapolation.transform_coordinates with the lower and
\* the upper transform swapped in the selection
Mixed_transform_axis_Swapped(dim_extrapolations, dim_coords, dim, backend) ==
    IF ExtEq(dim_extrapolations[1], dim_extrapolations[2])
    THEN Simple_transform_coordinates(dim_extrapolations[1], dim_coords, dim, backend)
    ELSE LET lower == Simple_transform_coordinates(dim_extrapolations[1], dim_coords, dim, backend)
             upper == Simple_transform_coordinates(dim_extrapolations[2], dim_coords, dim, backend)
         IN  IF IsRaise(lower) THEN lower
             ELSE IF IsRaise(upper) THEN upper
             ELSE Value([i \in DOMAIN dim_coords |->
                           IF dim_coords[i] <= 0 THEN upper.value[i] ELSE lower.value[i]])

\* one axis of MixedExtrapolation.transform_coordinates
Mixed_transform_axis(dim_extrapolations, dim_coords, dim, backend) ==
    IF ExtEq(dim_extrapolations[1], dim_extrapolations[2])
    THEN Simple_transform_coordinates(dim_extrapolations[1], dim_coords, dim, backend)
    ELSE LET lower == Simple_transform_coordinates(dim_extrapolations[1], dim_coords, dim, backend)
             upper == Simple_transform_coordinates(dim_extrapolations[2], dim_coords, dim, backend)
         IN  IF IsRaise(lower) THEN lower
             ELSE IF IsRaise(upper) THEN upper
             ELSE Value([i \in DOMAIN dim_coords |->
                           IF dim_coords[i] <= 0 THEN lower.value[i] ELSE upper.value[i]])

\* MixedExtrapolation.transform_coordinates: coordinates is one point, a
\* vector with one component per dimension of shape
Mixed_transform_coordinates(self, coordinates, shape, backend) ==
    IF ~(Len(self.keys) = Len(shape) /\ Len(shape) = Len(coordinates))
    THEN Raise("AssertionError", <<>>)
    ELSE LET result == [i \in 1..Len(shape) |->
                          IF shape[i].name \notin DOMAIN self.ext
                          THEN Raise("KeyError", <<>>)
                          ELSE Mixed_transform_axis(self.ext[shape[i].name],
                                                    <<coordinates[i]>>, shape[i].size,
                                                    backend)]
         IN  FirstRaise(result, Value([i \in 1..Len(shape) |-> result[i].value[1]]))

Sizes == 1..MaxSize

Coords == (-MaxCoord)..MaxCoord

CoordEntries == {ZERO, PERIODIC, BOUNDARY, SYMMETRIC, REFLECT}

Dim(name, size) == [name |-> name, size |-> size]

\* the coordinates next to the lower edge, for the points of two axes
EdgeCoords == -1..1

InitCoords ==
    /\ ret = Pending
    /\ files = NoFiles
    /\ demo = NoDemo
    /\ meshes = NoMeshes
    /\ \/ \E e \in Simple, c1 \in Coords, c2 \in Coords, size \in Sizes,
             backend \in Backends :
             call = Call("transform", <<e, <<c1, c2>>, size, backend>>)
       \/ \E m \in MixedOver("lhs", <<"x">>, CoordEntries),
             c \in Coords, size \in Sizes, backend \in Backends :
             call = Call("mixed_transform", <<m, <<c>>, <<Dim("x", size)>>, backend>>)
       \/ \E m \in MixedOver("lhs", <<"x", "y">>, {PERIODIC, BOUNDARY, REFLECT})
                     \cup MixedOver("lhs", <<"x">>, {BOUNDARY}),
             c1 \in EdgeCoords, c2 \in EdgeCoords, s1 \in Sizes, s2 \in Sizes,
             backend \in Backends :
             call = Call("mixed_transform",
                         <<m, <<c1, c2>>, <<Dim("x", s1), Dim("y", s2)>>, backend>>)

\* e.transform_coordinates(coordinates, shape) of a simple extrapolation
Transform ==
    /\ ret = Pending
    /\ call.fn = "transform"
    /\ ret' = Simple_transform_coordinates(call.args[1], call.args[2], call.args[3],
                                           call.args[4])
    /\ UNCHANGED <<call, files, meshes, demo>>

\* m.transform_coordinates(coordinates, shape) of a MixedExtrapolation
MixedTransform ==
    /\ ret = Pending
    /\ call.fn = "mixed_transform"
    /\ ret' = Mixed_transform_coordinates(call.args[1], call.args[2], call.args[3],
                                          call.args[4])
    /\ UNCHANGED <<call, files, meshes, demo>>

NextCoords ==
    \/ Transform
    \/ MixedTransform

SpecCoords == InitCoords /\ [][NextCoords]_vars

(***************************************************************************)
(* Properties of the coordinate transforms.                                *)
(***************************************************************************)
\* identity on 0..size-1, SYMMETRIC mirrors -1-k onto k, REFLECT -k onto k
MirrorFold(e, coordinates, size, r) ==
    /\ ~IsRaise(r)
    /\ \A i \in DOMAIN coordinates :
          coordinates[i] \in 0..(size - 1) => r.value[i] = coordinates[i]
    /\ (e = SYMMETRIC /\ coordinates[1] >= 0 /\ coordinates[2] = -1 - coordinates[1])
          => r.value[2] = r.value[1]
    /\ (e = REFLECT /\ coordinates[1] >= 0 /\ coordinates[2] = -coordinates[1])
          => r.value[2] = r.value[1]

\* C7 as stated: for every axis size >= 1, SYMMETRIC and REFLECT return
\* every coordinate of 0..size-1 unchanged, SYMMETRIC maps -1-k to the
\* index of k and REFLECT maps -k to the index of k.
C7_MirrorFoldAnySize ==
    (call.fn = "transform" /\ Returned /\ Arg1 \in {SYMMETRIC, REFLECT}) =>
        MirrorFold(Arg1, Arg2, call.args[3], ret)

\* C7 as amended: the same for SYMMETRIC and every axis size >= 1, and for
\* REFLECT and every axis size >= 2.
C7_MirrorFold ==
    (/\ call.fn = "transform"
     /\ Returned
     /\ Arg1 \in {SYMMETRIC, REFLECT}
     /\ Arg1 = REFLECT => call.args[3] >= 2) =>
        MirrorFold(Arg1, Arg2, call.args[3], ret)

\* REFLECT has folded 5 and -5, both outside an axis of size 3, onto 1
C7_Witness ==
    /\ call.fn = "transform"
    /\ Arg1 = REFLECT
    /\ call.args[3] = 3
    /\ Arg2 = <<5, -5>>
    /\ Returned
    /\ ret = Value(<<1, 1>>)

\* the policy the claim selects on an axis for the coordinate c
Selected(pair, c) == IF pair[1] = pair[2] \/ c <= 0 THEN pair[1] ELSE pair[2]

\* the transform of coordinate i of the call by the policy e
AxisTransform(e, i) ==
    Simple_transform_coordinates(e, <<Arg2[i]>>, call.args[3][i].size, call.args[4])

AxisPair(i) == Arg1.ext[call.args[3][i].name]

WellFormedTransform ==
    /\ call.fn = "mixed_transform"
    /\ Returned
    /\ Len(Arg1.keys) = Len(Arg2)
    /\ Len(call.args[3]) = Len(Arg2)

\* every axis returns the transform of its selected policy
SelectedTransforms ==
    /\ (\A i \in DOMAIN Arg2 : ~IsRaise(AxisTransform(Selected(AxisPair(i), Arg2[i]), i)))
          => ~IsRaise(ret)
    /\ ~IsRaise(ret) =>
          \A i \in DOMAIN Arg2 :
             Value(<<ret.value[i]>>) = AxisTransform(Selected(AxisPair(i), Arg2[i]), i)

\* C8 as stated: axis by axis, equal lower and upper policies return that
\* policy's transform; otherwise the lower policy's transform is returned
\* for every coordinate <= 0 and the upper policy's for every
\* coordinate > 0.
C8_SelectBySign == WellFormedTransform => SelectedTransforms

\* the transforms that MixedExtrapolation.transform_coordinates computes on
\* axis i: the one of the common policy, or both the lower and the upper
\* one
ComputedTransforms(i) ==
    IF AxisPair(i)[1] = AxisPair(i)[2]
    THEN {AxisTransform(AxisPair(i)[1], i)}
    ELSE {AxisTransform(AxisPair(i)[1], i), AxisTransform(AxisPair(i)[2], i)}

\* C8 as amended: axis by axis, equal lower and upper policies return that
\* policy's transform; otherwise both policies' transforms are computed,
\* the call fails with the failure of a transform when either of them
\* fails, whatever the sign of the coordinate, and else the lower policy's
\* transform is returned for every coordinate <= 0 and the upper policy's
\* for every coordinate > 0.
C8_SelectBySignBothComputed ==
    WellFormedTransform =>
        /\ IsRaise(ret) <=> \E i \in DOMAIN Arg2 : \E t \in ComputedTransforms(i) : IsRaise(t)
        /\ IsRaise(ret) => \E i \in DOMAIN Arg2 : ret \in ComputedTransforms(i)
        /\ ~IsRaise(ret) =>
              \A i \in DOMAIN Arg2 :
                 Value(<<ret.value[i]>>) = AxisTransform(Selected(AxisPair(i), Arg2[i]), i)

\* upper REFLECT on an axis of size 1 has failed for the coordinate 0, for
\* which the lower policy is selected
FailedUnselectedTransform ==
    /\ call.fn = "mixed_transform"
    /\ Returned
    /\ Len(Arg2) = 1
    /\ Arg1.ext["x"] = <<BOUNDARY, REFLECT>>
    /\ Arg2 = <<0>>
    /\ call.args[3] = <<Dim("x", 1)>>
    /\ IsRaise(ret) /\ ret.raise = "ZeroDivisionError"

\* lower PERIODIC has wrapped x = -1 onto 2 where upper BOUNDARY clips to
\* 0; on y upper PERIODIC has wrapped 1 onto 0
C8_Witness ==
    /\ call.fn = "mixed_transform"
    /\ Returned
    /\ Len(Arg2) = 2
    /\ Arg1.ext["x"] = <<PERIODIC, BOUNDARY>>
    /\ Arg1.ext["y"] = <<BOUNDARY, PERIODIC>>
    /\ Arg2 = <<-1, 1>>
    /\ call.args[3] = <<Dim("x", 3), Dim("y", 1)>>
    /\ ret = Value(<<2, 0>>)

(***************************************************************************)
(* Geometry embedding.  A geometry is a record with its class and the      *)
(* item names of its vector dimension; a location is a vector with item    *)
(* names: the order of the names and the component of each.                *)
(*                                                                         *)
(* Sphere and Box are the base geometries: a sphere of radius 1 around     *)
(* the origin and the box [0, 1] on each of its bounded axes.  A Box       *)
(* built with the bound None for an axis is unbounded on it.               *)
(***************************************************************************)
Names == {"x", "y", "z"}

Range(seq) == {seq[i] : i \in 1..Len(seq)}

\* the duplicate-free sequences over S of length 1..n
TuplesUpTo(S, n) ==
    UNION {{t \in [1..k -> S] : \A i, j \in 1..k : i # j => t[i] # t[j]} : k \in 1..n}

Sphere(names) == [cls |-> "Sphere", names |-> names]

Box(names, bounded) == [cls |-> "Box", names |-> names, bounded |-> bounded]

Location(order, at) == [order |-> order, at |-> at]

RECURSIVE SumSquares(_, _)
SumSquares(names, at) ==
    IF names = <<>> THEN 0
    ELSE at[Head(names)] * at[Head(names)] + SumSquares(Tail(names), at)

RECURSIVE Max(_)
Max(S) ==
    LET x == CHOOSE y \in S : TRUE
    IN  IF S = {x} THEN x
        ELSE LET m == Max(S \ {x}) IN IF x > m THEN x ELSE m

\* Sphere.lies_inside: squared distance to the center <= radius squared
Sphere_lies_inside(self, location) ==
    IF Range(location.order) # Range(self.names)
    THEN Raise("IncompatibleShapes", <<location.order, self.names>>)
    ELSE Value(SumSquares(self.names, location.at) <= 1)

\* Sphere.approximate_signed_distance: the distance to the center minus the
\* radius, kept as the square of the distance and the radius
Sphere_approximate_signed_distance(self, location) ==
    IF Range(location.order) # Range(self.names)
    THEN Raise("IncompatibleShapes", <<location.order, self.names>>)
    ELSE Value([sqrt_of |-> SumSquares(self.names, location.at), minus |-> 1])

\* Box.lies_inside: between lower and upper on every bounded axis
Box_lies_inside(self, location) ==
    IF Range(location.order) # Range(self.names)
    THEN Raise("IncompatibleShapes", <<location.order, self.names>>)
    ELSE Value(\A a \in self.bounded : location.at[a] >= 0 /\ location.at[a] <= 1)

\* Box.approximate_signed_distance: the largest distance beyond a face over
\* the bounded axes, in halves: |2 x - (lower + upper)| - (upper - lower)
Box_approximate_signed_distance(self, location) ==
    IF Range(location.order) # Range(self.names)
    THEN Raise("IncompatibleShapes", <<location.order, self.names>>)
    ELSE Value([halves |-> Max({Abs(2 * location.at[a] - 1) - 1 : a \in self.bounded})])

\* box * Box(**{dim: None for dim in embedded_axes})
BoxProduct(box, embedded_axes) == Box(box.names \o embedded_axes, box.bounded)

_EmbeddedGeometry(geometry, axes) ==
    [cls |-> "_EmbeddedGeometry", geometry |-> geometry, axes |-> axes]

\* the vector item names of a geometry's shape
get_item_names(g) == IF g.cls = "_EmbeddedGeometry" THEN g.axes ELSE g.names

spatial_rank(g) == Len(get_item_names(g))

\* location.vector[item_names]
Slice(location, item_names) ==
    Location(item_names, [a \in Range(item_names) |-> location.at[a]])

\* list.remove(x)
RECURSIVE remove(_, _)
remove(list, x) ==
    IF list = <<>> THEN Raise("ValueError", <<x>>)
    ELSE IF Head(list) = x THEN Value(Tail(list))
    ELSE LET rest == remove(Tail(list), x)
         IN  IF IsRaise(rest) THEN rest ELSE Value(<<Head(list)>> \o rest.value)

\* the loop of _down_project over self.axes[i..]
RECURSIVE RemoveEmbedded(_, _, _)
RemoveEmbedded(self, item_names, i) ==
    IF i > Len(self.axes) THEN Value(item_names)
    ELSE IF self.axes[i] \notin Range(get_item_names(self.geometry))
         THEN LET removed == remove(item_names, self.axes[i])
              IN  IF IsRaise(removed) THEN removed
                  ELSE RemoveEmbedded(self, removed.value, i + 1)
         ELSE RemoveEmbedded(self, item_names, i + 1)

\* _down_project with the test inverted: the axes of the base geometry are
\* removed and the embedded ones kept
RECURSIVE RemoveBase(_, _, _)
RemoveBase(self, item_names, i) ==
    IF i > Len(self.axes) THEN Value(item_names)
    ELSE IF self.axes[i] \in Range(get_item_names(self.geometry))
         THEN LET removed == remove(item_names, self.axes[i])
              IN  IF IsRaise(removed) THEN removed
                  ELSE RemoveBase(self, removed.value, i + 1)
         ELSE RemoveBase(self, item_names, i + 1)

_down_project_Inverted(self, location) ==
    LET item_names == RemoveBase(self, location.order, 1)
    IN  IF IsRaise(item_names) THEN item_names
        ELSE Value(Slice(location, item_names.value))

_down_project(self, location) ==
    LET item_names == RemoveEmbedded(self, location.order, 1)
    IN  IF IsRaise(item_names) THEN item_names
        ELSE Value(Slice(location, item_names.value))

RECURSIVE lies_inside(_, _)
lies_inside(g, location) ==
    CASE g.cls = "Sphere" -> Sphere_lies_inside(g, location)
      [] g.cls = "Box" -> Box_lies_inside(g, location)
      [] g.cls = "_EmbeddedGeometry" ->
            LET projected_loc == _down_project(g, location)
            IN  IF IsRaise(projected_loc) THEN projected_loc
                ELSE lies_inside(g.geometry, projected_loc.value)

RECURSIVE approximate_signed_distance(_, _)
approximate_signed_distance(g, location) ==
    CASE g.cls = "Sphere" -> Sphere_approximate_signed_distance(g, location)
      [] g.cls = "Box" -> Box_approximate_signed_distance(g, location)
      [] g.cls = "_EmbeddedGeometry" ->
            LET projected_loc == _down_project(g, location)
            IN  IF IsRaise(projected_loc) THEN projected_loc
                ELSE approximate_signed_distance(g.geometry, projected_loc.value)

\* [a for a in seq if a not in excluded]
RECURSIVE Without(_, _)
Without(seq, excluded) ==
    IF seq = <<>> THEN <<>>
    ELSE IF Head(seq) \in excluded THEN Without(Tail(seq), excluded)
    ELSE <<Head(seq)>> \o Without(Tail(seq), excluded)

\* the loop of embed over reversed(geometry.shape.get_item_names('vector')),
\* names[i] down to names[1]
RECURSIVE PrependMissing(_, _, _, _)
PrependMissing(names, i, projected_dims, axes) ==
    IF i = 0 THEN axes
    ELSE PrependMissing(names, i - 1, projected_dims,
                        IF names[i] \notin Range(projected_dims)
                        THEN <<names[i]>> \o axes ELSE axes)

NoDims == [none |-> TRUE]

\* embed(geometry, projected_dims); projected_dims is None or a tuple of
\* axis names
embed(geometry, projected_dims) ==
    IF projected_dims = NoDims THEN geometry
    ELSE LET parsed == projected_dims.names
             embedded_axes == Without(parsed, Range(get_item_names(geometry)))
             axes == PrependMissing(get_item_names(geometry), spatial_rank(geometry),
                                     parsed, parsed)
         IN  IF embedded_axes = <<>> THEN geometry
             ELSE IF geometry.cls = "Box" THEN BoxProduct(geometry, embedded_axes)
             ELSE _EmbeddedGeometry(geometry, axes)

MaxDims == 2        \* projected_dims names at most MaxDims axes

Geometries ==
    {Sphere(names) : names \in TuplesUpTo({"x", "y"}, 2)}
    \cup {Box(names, Range(names)) : names \in TuplesUpTo({"x", "y"}, 2)}

DimTuples == {[names |-> t] : t \in TuplesUpTo(Names, MaxDims)}

Components == (-MaxLoc)..MaxLoc

\* the axes projected_dims adds to the geometry
Added(g, dims) == Range(dims.names) \ Range(g.names)

\* the location with its components on the axes of `added` replaced
Moved(location, added, alt) ==
    Location(location.order,
             [a \in DOMAIN location.at |-> IF a \in added THEN alt[a] ELSE location.at[a]])

Queries == {"lies_inside", "approximate_signed_distance"}

InitEmbed ==
    /\ ret = Pending
    /\ files = NoFiles
    /\ demo = NoDemo
    /\ meshes = NoMeshes
    /\ \/ \E g \in Geometries, dims \in DimTuples \cup {NoDims} :
             call = Call("embed", <<g, dims>>)
       \/ \E g \in Geometries, dims \in DimTuples, fn \in Queries :
             \E order \in Orders(Range(g.names) \cup Range(dims.names)) :
                \E at \in [Range(order) -> Components],
                   alt \in [Added(g, dims) -> Components] :
                   call = Call(fn, <<g, dims, Location(order, at),
                                     Moved(Location(order, at), Added(g, dims), alt)>>)

\* embed(geometry, projected_dims)
Embed ==
    /\ ret = Pending
    /\ call.fn = "embed"
    /\ ret' = embed(call.args[1], call.args[2])
    /\ UNCHANGED <<call, files, meshes, demo>>

\* embed(geometry, projected_dims).lies_inside(location), at two locations
LiesInside ==
    /\ ret = Pending
    /\ call.fn = "lies_inside"
    /\ LET embedded == embed(call.args[1], call.args[2])
       IN  ret' = [first |-> lies_inside(embedded, call.args[3]),
                   second |-> lies_inside(embedded, call.args[4])]
    /\ UNCHANGED <<call, files, meshes, demo>>

\* embed(geometry, projected_dims).approximate_signed_distance(location),
\* at two locations
ApproximateSignedDistance ==
    /\ ret = Pending
    /\ call.fn = "approximate_signed_distance"
    /\ LET embedded == embed(call.args[1], call.args[2])
       IN  ret' = [first |-> approximate_signed_distance(embedded, call.args[3]),
                   second |-> approximate_signed_distance(embedded, call.args[4])]
    /\ UNCHANGED <<call, files, meshes, demo>>

NextEmbed ==
    \/ Embed
    \/ LiesInside
    \/ ApproximateSignedDistance

SpecEmbed == InitEmbed /\ [][NextEmbed]_vars

(***************************************************************************)
(* Properties of the embedding.                                            *)
(***************************************************************************)
\* the query of the call on the base geometry g at the location restricted
\* to the axes of g
BaseAnswer(g, location) ==
    IF call.fn = "lies_inside"
    THEN lies_inside(g, Slice(location, g.names))
    ELSE approximate_signed_distance(g, Slice(location, g.names))

\* C9: lies_inside and approximate_signed_distance of embed(g, added axes)
\* at a location equal those of g at the location restricted to the axes
\* of g, so two locations that differ only in the added coordinates get
\* the same answer.
C9_EmbeddedQueries ==
    (call.fn \in Queries /\ Returned /\ Added(Arg1, Arg2) # {}) =>
        /\ ~IsRaise(ret.first)
        /\ ret.first = BaseAnswer(Arg1, call.args[3])
        /\ ret.second = BaseAnswer(Arg1, call.args[4])
        /\ ret.first = ret.second

\* a sphere on (x, y) embedded along z has answered for a point inside and
\* for the same point moved along z
C9_Witness ==
    /\ call.fn = "lies_inside"
    /\ Returned
    /\ Arg1 = Sphere(<<"x", "y">>)
    /\ Arg2.names = <<"z">>
    /\ call.args[3].at["z"] # call.args[4].at["z"]
    /\ ret.first = Value(TRUE)
    /\ ret.second = Value(TRUE)

\* the axes projected_dims names that the geometry lacks, in their order
NewAxes(g, dims) == Without(dims.names, Range(g.names))

\* C10: embed returns the geometry itself when projected_dims is absent or
\* names no new axis; otherwise the axis tuple of the result is the
\* geometry's axes in their original order followed by the new axes, each
\* axis once, and the spatial rank is the geometry's rank plus the number
\* of new axes, also when projected_dims names an axis the geometry has.
C10_EmbedAxes ==
    (call.fn = "embed" /\ Returned) =>
        IF Arg2 = NoDims \/ NewAxes(Arg1, Arg2) = <<>>
        THEN ret = Arg1
        ELSE /\ get_item_names(ret) = Arg1.names \o NewAxes(Arg1, Arg2)
             /\ spatial_rank(ret) = Len(Arg1.names) + Len(NewAxes(Arg1, Arg2))

\* What embed does guarantee: the geometry itself without new axes, and
\* otherwise every axis of the geometry and every new axis exactly once,
\* hence the rank.
EmbedAxisSet ==
    (call.fn = "embed" /\ Returned) =>
        IF Arg2 = NoDims \/ NewAxes(Arg1, Arg2) = <<>>
        THEN ret = Arg1
        ELSE /\ Range(get_item_names(ret)) = Range(Arg1.names) \cup Range(Arg2.names)
             /\ spatial_rank(ret) = Len(Arg1.names) + Len(NewAxes(Arg1, Arg2))

(***************************************************************************)
(* The unstructured mesh (phi/geom/_mesh.py).                              *)
(*                                                                         *)
(* Python values that share a parameter or a field are tagged records:     *)
(* None, an int, a str, a list, a dict.  A dict holds the sequence of its  *)
(* items in insertion order.                                               *)
(***************************************************************************)
None == [none |-> TRUE]

IsNone(v) == "none" \in DOMAIN v

PyInt(i) == [int |-> i]

PyStr(s) == [str |-> s]

PyList(items) == [list |-> items]

\* a dimension that a tensor does not have
NoDim == ""

\* a tensor of vertex positions: one row per vertex along the instance
\* dimension, the components along the channel dimension
VertexTensor(instance_dim, channel_dim, item_names, rows) ==
    [cls |-> "Tensor", instance |-> instance_dim, channel |-> channel_dim,
     item_names |-> item_names, rows |-> rows]

\* Point(vertices): the geometry that wraps a tensor of positions
Point(location) == [cls |-> "Point", center |-> location]

IsGeometry(v) == v.cls = "Point"

Center(vertices) == IF IsGeometry(vertices) THEN vertices.center ELSE vertices

\* the dual counterpart of an instance dimension
as_dual(dim) == "~" \o dim

\* elements given as a dense list of vertex indices per element
DenseElements(instance_dim, dtype, rows) ==
    [cls |-> "Tensor", instance |-> instance_dim, spatial |-> "vertex_index",
     dual |-> NoDim, dtype |-> dtype, rows |-> rows]

\* elements given as a sparse incidence matrix (elements, ~vertices): the
\* stored column indices of each row
SparseElements(instance_dim, dual_dim, dtype, rows) ==
    [cls |-> "SparseTensor", instance |-> instance_dim, spatial |-> NoDim,
     dual |-> dual_dim, dtype |-> dtype, rows |-> rows]

\* CompactSparseTensor(indices, values, compressed_dims, indices_constant):
\* the same number of stored entries in every row
CompactSparseTensor(instance_dim, dual_dim, indices) ==
    [cls |-> "CompactSparseTensor", instance |-> instance_dim, spatial |-> NoDim,
     dual |-> dual_dim, dtype |-> "bool", rows |-> indices]

\* instance(elements).volume / .size
InstanceVolume(tensor_value) == Len(tensor_value.rows)

\* the dataclass fields of Mesh in declaration order with their defaults
MeshFields ==
    <<"vertices", "elements", "element_rank", "boundaries", "periodic",
      "face_format", "max_cell_walk", "variable_attrs", "value_attrs">>

MeshDefaults ==
    [face_format |-> PyStr("csc"), max_cell_walk |-> None,
     variable_attrs |-> <<"vertices">>, value_attrs |-> <<>>]

\* the __init__ that @dataclass generates: positional arguments fill the
\* fields in declaration order, the first five are required
Mesh__init__(args) ==
    IF Len(args) < 5 \/ Len(args) > Len(MeshFields)
    THEN Raise("TypeError", <<"__init__", Len(args)>>)
    ELSE [f \in {MeshFields[i] : i \in 1..Len(MeshFields)} \cup {"cls"} |->
            IF f = "cls" THEN "Mesh"
            ELSE LET i == CHOOSE j \in 1..Len(MeshFields) : MeshFields[j] = f
                 IN  IF i <= Len(args) THEN args[i] ELSE MeshDefaults[f]]

IsMesh(v) == "cls" \in DOMAIN v /\ v.cls = "Mesh"

\* _MeshType.__call__(cls, vertices, elements, element_rank, boundaries,
\*                    max_cell_walk=None, variables=('vertices',), values=())
_MeshType__call__(args) ==
    IF Len(args) < 4 \/ Len(args) > 7
    THEN Raise("TypeError", <<"__call__", Len(args)>>)
    ELSE LET vertices0 == args[1]
             elements == args[2]
             element_rank == args[3]
             boundaries == args[4]
             max_cell_walk0 == IF Len(args) >= 5 THEN args[5] ELSE None
             variables == IF Len(args) >= 6 THEN args[6] ELSE <<"vertices">>
             values == IF Len(args) >= 7 THEN args[7] ELSE <<>>
             vertices == IF IsGeometry(vertices0) THEN vertices0 ELSE Point(vertices0)
             max_cell_walk ==
                 IF IsNone(max_cell_walk0)
                 THEN PyInt(IF InstanceVolume(elements) > 1 THEN 2 ELSE 1)
                 ELSE max_cell_walk0
         IN  IF elements.spatial # NoDim /\ elements.dtype # "int"
             THEN Raise("AssertionError", <<"elements listing vertices must be integer lists">>)
             ELSE IF elements.spatial = NoDim /\ elements.dtype # "bool"
             THEN Raise("AssertionError", <<"element matrices must be of type bool">>)
             ELSE Mesh__init__(<<vertices, elements, element_rank, boundaries,
                                 max_cell_walk, variables, values>>)

\* str.strip() on the segments of a periodic string
strip(s) ==
    CASE s = " x" -> "x"
      [] s = "y " -> "y"
      [] s = " " -> ""
      [] OTHER -> s

RECURSIVE SelectNonEmpty(_)
SelectNonEmpty(segments) ==
    IF segments = <<>> THEN <<>>
    ELSE (IF strip(Head(segments)) # "" THEN <<strip(Head(segments))>> ELSE <<>>)
         \o SelectNonEmpty(Tail(segments))

\* sum_(elements, dual).min: the smallest number of vertices of an element
MinVertices(elements) ==
    CHOOSE m \in {Len(elements.rows[i]) : i \in 1..Len(elements.rows)} :
        \A i \in 1..Len(elements.rows) : m <= Len(elements.rows[i])

\* the first periodic axis without its boundaries, 0 if there is none
FirstMissing(periodic_dims, boundaries) ==
    LET missing == {i \in 1..Len(periodic_dims) :
                      ~ /\ (periodic_dims[i] \o "+") \in Keys(boundaries)
                        /\ (periodic_dims[i] \o "-") \in Keys(boundaries)}
    IN  IF missing = {} THEN 0
        ELSE CHOOSE i \in missing : \A j \in missing : i <= j

\* element_rank of mesh(...) when it is not given; first with the
\* surface/solid threshold one vertex lower
DefaultElementRank_Below4(vertices, elements) ==
    LET size == Len(Center(vertices).item_names)
    IN  IF size = 2 THEN PyInt(2)
        ELSE IF size = 3
        THEN PyInt(IF MinVertices(elements) < 4 THEN 2 ELSE 3)
        ELSE Raise("ValueError", <<size>>)

DefaultElementRank(vertices, elements) ==
    LET size == Len(Center(vertices).item_names)
    IN  IF size = 2 THEN PyInt(2)
        ELSE IF size = 3
        THEN PyInt(IF MinVertices(elements) <= 4 THEN 2 ELSE 3)
        ELSE Raise("ValueError", <<size>>)

\* the periodic part of mesh(...): the list of periodic axes, or the failure;
\* periodic is None or the list of the segments between the commas.  With
\* boundaries None the test `base+'+' in boundaries` raises TypeError
\* before the assertion can fail.
PeriodicDims(vertices, boundaries, periodic) ==
    IF IsNone(periodic) THEN PyList(<<>>)
    ELSE LET periodic_dims == SelectNonEmpty(periodic.split)
         IN  IF \E i \in 1..Len(periodic_dims) :
                   periodic_dims[i] \notin Range(Center(vertices).item_names)
             THEN Raise("AssertionError", <<"Periodic boundaries must be named after axes">>)
             ELSE IF periodic_dims = <<>> THEN PyList(periodic_dims)
             ELSE IF IsNone(boundaries)
             THEN Raise("TypeError", <<"argument of type 'NoneType' is not iterable">>)
             ELSE IF FirstMissing(periodic_dims, boundaries) # 0
             THEN Raise("AssertionError", <<"Missing boundaries for periodicity",
                                            periodic_dims[FirstMissing(periodic_dims, boundaries)]>>)
             ELSE PyList(periodic_dims)

\* mesh(vertices, elements, boundaries, element_rank, periodic, face_format,
\*      max_cell_walk)
mesh(vertices0, elements0, boundaries, element_rank0, periodic, face_format, max_cell_walk) ==
    IF Center(vertices0).channel # "vector"
    THEN Raise("AssertionError", <<"vertices must have a channel dimension called 'vector'">>)
    ELSE IF Center(vertices0).instance = NoDim
    THEN Raise("AssertionError", <<"vertices must have an instance dimension">>)
    ELSE
    LET vertices == IF IsGeometry(vertices0) THEN vertices0 ELSE Point(vertices0)
        vertex_dual == as_dual(Center(vertices).instance)
        elements == IF elements0.spatial # NoDim
                    THEN CompactSparseTensor(elements0.instance, vertex_dual, elements0.rows)
                    ELSE elements0
    IN  IF elements.dual # vertex_dual
        THEN Raise("AssertionError", <<"elements must have the instance dim of vertices">>)
        ELSE
        LET element_rank == IF IsNone(element_rank0)
                            THEN DefaultElementRank(vertices, elements)
                            ELSE element_rank0
            periodic_dims == PeriodicDims(vertices, boundaries, periodic)
        IN  IF IsRaise(element_rank) THEN element_rank
            ELSE IF IsRaise(periodic_dims) THEN periodic_dims
            ELSE _MeshType__call__(<<vertices, elements, element_rank, boundaries,
                                     periodic_dims, face_format, max_cell_walk>>)

\* tuple('xyz'[:points.shape[-1]])
xyz(n) == SubSeq(<<"x", "y", "z">>, 1, IF n < 3 THEN n ELSE 3)

\* mesh_from_numpy(points, polygons, boundaries, element_rank, periodic,
\*                 cell_dim, face_format): points have 1 to 3 components
mesh_from_numpy(points, polygons, boundaries, element_rank, periodic, cell_dim, face_format) ==
    LET vertices == VertexTensor("vertices", "vector", xyz(Len(points[1])), points)
    IN  IF polygons = <<>>
        THEN Raise("ValueError", <<"need at least one array to concatenate">>)
        ELSE LET elements ==
                     IF \A i \in 1..Len(polygons) : Len(polygons[i]) = Len(polygons[1])
                     THEN DenseElements(cell_dim, "int", polygons)
                     ELSE SparseElements(cell_dim, as_dual("vertices"), "bool", polygons)
             IN  mesh(vertices, elements, boundaries, element_rank, periodic,
                      face_format, None)

(***************************************************************************)
(* Calls of the mesh constructors.                                         *)
(***************************************************************************)
MaxVertices == 5    \* an element has 3..MaxVertices vertices

AxisNames == <<"x", "y", "z", "w">>

\* vertex i of MaxVertices + 1 vertices on a grid three wide, in n dimensions
GridPoint(i, n) == SubSeq(<<tensor(i % 3), tensor(i \div 3), tensor(0), tensor(0)>>, 1, n)

GridPoints(n) == [i \in 1..(MaxVertices + 1) |-> GridPoint(i - 1, n)]

MeshVertices ==
    {VertexTensor("vertices", "vector", SubSeq(AxisNames, 1, n), GridPoints(n)) : n \in 1..4}
    \cup {Point(VertexTensor("vertices", "vector", SubSeq(AxisNames, 1, 3), GridPoints(3))),
          VertexTensor("vertices", "vec", SubSeq(AxisNames, 1, 2), GridPoints(2)),
          VertexTensor(NoDim, "vector", SubSeq(AxisNames, 1, 2), GridPoints(2))}

\* the polygon over the vertices 0..n-1
Polygon(n) == [i \in 1..n |-> i - 1]

\* lists of one or two polygons
PolygonLists ==
    {<<Polygon(n)>> : n \in 3..MaxVertices}
    \cup {<<Polygon(n), Polygon(m)>> : n, m \in 3..MaxVertices}

MeshElements ==
    {DenseElements("cells", "int", rows) :
        rows \in {r \in PolygonLists : Len(r[1]) = Len(r[Len(r)])}}
    \cup {SparseElements("cells", "~vertices", "bool", rows) : rows \in PolygonLists}
    \cup {SparseElements("cells", "~points", "bool", <<Polygon(3)>>),
          SparseElements("cells", "~vertices", "int", <<Polygon(3)>>)}

ElementRanks == {None, PyInt(2), PyInt(3)}

\* a periodic string, by its segments between the commas
PeriodicStrings ==
    {None} \cup {[split |-> segments] :
        segments \in {<<"x">>, <<"x", "y">>, <<" x", "">>, <<" ">>, <<"q">>,
                      <<"y ", "z">>}}

NoEdges == <<>>

BoundaryDicts ==
    {None} \cup {PyDict([i \in 1..Len(names) |-> Item(names[i], NoEdges)]) :
        names \in {<<>>, <<"x+", "x-">>, <<"x-">>, <<"y-", "y+", "x+">>,
                   <<"x+", "x-", "y+", "y-">>, <<"y+", "y-", "z-", "z+">>}}

FaceFormats == {PyStr("csc"), PyStr("coo")}

CellWalks == {None, PyInt(1), PyInt(3)}

InitMesh ==
    /\ ret = Pending
    /\ files = NoFiles
    /\ demo = NoDemo
    /\ meshes = NoMeshes
    /\ \/ \E v \in MeshVertices, e \in MeshElements, b \in BoundaryDicts,
             r \in ElementRanks, p \in PeriodicStrings, f \in FaceFormats,
             w \in CellWalks :
             call = Call("mesh", <<v, e, b, r, p, f, w>>)
       \/ \E n \in 1..3, polygons \in PolygonLists \cup {<<>>}, b \in BoundaryDicts,
             r \in ElementRanks, p \in PeriodicStrings, f \in FaceFormats :
             call = Call("mesh_from_numpy", <<GridPoints(n), polygons, b, r, p, "cells", f>>)

MeshCall ==
    /\ ret = Pending
    /\ call.fn = "mesh"
    /\ ret' = mesh(call.args[1], call.args[2], call.args[3], call.args[4],
                   call.args[5], call.args[6], call.args[7])
    /\ UNCHANGED <<call, files, meshes, demo>>

MeshFromNumpy ==
    /\ ret = Pending
    /\ call.fn = "mesh_from_numpy"
    /\ ret' = mesh_from_numpy(call.args[1], call.args[2], call.args[3], call.args[4],
                              call.args[5], call.args[6], call.args[7])
    /\ UNCHANGED <<call, files, meshes, demo>>

NextMesh == MeshCall \/ MeshFromNumpy

SpecMesh == InitMesh /\ [][NextMesh]_vars

\* the arguments of a mesh(...) call pass the checks of the vertices and of
\* the elements that precede the element rank
ValidShapes ==
    /\ call.fn = "mesh"
    /\ Center(Arg1).channel = "vector"
    /\ Center(Arg1).instance # NoDim
    /\ Arg2.spatial = NoDim => /\ Arg2.dual = as_dual(Center(Arg1).instance)
                               /\ Arg2.dtype = "bool"

VectorSize == Len(Center(Arg1).item_names)

\* C11: without element_rank, mesh(...) sets the rank to 2 for 2D vertices,
\* for 3D vertices to 2 when some element has at most 4 vertices and to 3
\* otherwise, and fails with InvalidInput for any other vector size.
C11_DefaultElementRank ==
    (ValidShapes /\ Returned /\ IsNone(call.args[4])) =>
        LET few == \E i \in 1..Len(Arg2.rows) : Len(Arg2.rows[i]) <= 4
            expected == IF VectorSize = 2 \/ few THEN 2 ELSE 3
        IN  /\ VectorSize \notin {2, 3} => IsInvalidInput(ret) /\ ret.raise = "ValueError"
            /\ VectorSize \in {2, 3} =>
                   /\ IsMesh(ret) => ret.element_rank = PyInt(expected)
                   /\ IsNone(call.args[5]) => IsMesh(ret)

C11_Witness ==
    /\ ValidShapes /\ IsNone(call.args[4])
    /\ VectorSize = 3
    /\ Len(Arg2.rows) = 2
    /\ IsMesh(ret) /\ ret.element_rank = PyInt(3)

\* the axis names of a periodic string: its segments, stripped, that are
\* not blank
PeriodicNames == {strip(call.args[5].split[i]) : i \in 1..Len(call.args[5].split)} \ {""}

HasBoundaryPair(name) ==
    /\ ~IsNone(call.args[3])
    /\ \E i \in 1..Len(call.args[3].dict) : call.args[3].dict[i].key = name \o "+"
    /\ \E i \in 1..Len(call.args[3].dict) : call.args[3].dict[i].key = name \o "-"

\* C12: mesh(...) with a periodic string returns a Mesh only if every axis
\* name of the string is a vector axis of the vertices and the boundaries
\* contain '<axis>+' and '<axis>-' for each; otherwise, also without
\* boundaries, it fails with InvalidInput and returns no Mesh.
C12_PeriodicChecked ==
    (ValidShapes /\ Returned /\ ~IsNone(call.args[5])
       /\ (IsNone(call.args[4]) => VectorSize \in {2, 3})) =>
        LET accepted == \A name \in PeriodicNames :
                            /\ name \in Range(Center(Arg1).item_names)
                            /\ HasBoundaryPair(name)
        IN  /\ accepted => IsMesh(ret) /\ Range(ret.periodic.list) = PeriodicNames
            /\ ~accepted => IsInvalidInput(ret)

\* What mesh(...) does guarantee: a periodic string is accepted exactly if
\* every axis name is a vector axis with both boundary groups; a string
\* that names no vector axis, or an axis without both groups in a
\* boundaries dict, fails with InvalidInput; without boundaries a string
\* of vector axes fails with TypeError.
PeriodicCheckedWithDict ==
    (ValidShapes /\ Returned /\ ~IsNone(call.args[5])
       /\ (IsNone(call.args[4]) => VectorSize \in {2, 3})) =>
        LET named == PeriodicNames \subseteq Range(Center(Arg1).item_names)
            accepted == named /\ \A name \in PeriodicNames : HasBoundaryPair(name)
        IN  /\ accepted => IsMesh(ret) /\ Range(ret.periodic.list) = PeriodicNames
            /\ (~accepted /\ (~named \/ ~IsNone(call.args[3]))) => IsInvalidInput(ret)
            /\ (~accepted /\ named /\ IsNone(call.args[3])) =>
                   IsRaise(ret) /\ ret.raise = "TypeError"

\* both axes are periodic and the Mesh has been built
PeriodicAccepted ==
    /\ ValidShapes /\ ~IsNone(call.args[5])
    /\ PeriodicNames = {"x", "y"}
    /\ IsMesh(ret) /\ ret.periodic = PyList(<<"x", "y">>)

\* periodic='x' without boundaries has raised TypeError
PeriodicWithoutBoundaries ==
    /\ ValidShapes /\ Returned /\ ~IsNone(call.args[5])
    /\ PeriodicNames = {"x"}
    /\ IsNone(call.args[3])
    /\ IsRaise(ret) /\ ret.raise = "TypeError"

\* C13: a Mesh built by mesh(...) or mesh_from_numpy(...) without
\* max_cell_walk has the integer max_cell_walk 2 when there is more than
\* one element and 1 otherwise; the periodic list, face_format and
\* max_cell_walk of mesh(...) end up in the fields of the same name.
C13_MaxCellWalk ==
    (call.fn \in {"mesh", "mesh_from_numpy"} /\ IsMesh(ret)) =>
        /\ (call.fn = "mesh_from_numpy" \/ IsNone(call.args[7])) =>
               ret.max_cell_walk = PyInt(IF Len(Arg2.rows) > 1 THEN 2 ELSE 1)
        /\ call.fn = "mesh" =>
               /\ ret.face_format = call.args[6]
               /\ ~IsNone(call.args[7]) => ret.max_cell_walk = call.args[7]
               /\ ret.periodic = IF IsNone(call.args[5]) THEN PyList(<<>>)
                                 ELSE PyList(SelectNonEmpty(call.args[5].split))

\* What the constructors do guarantee: every argument of mesh(...) ends up
\* in the field of the same name, max_cell_walk also when it is None.
MeshFieldsPassed ==
    (call.fn = "mesh" /\ IsMesh(ret)) =>
        /\ ret.face_format = call.args[6]
        /\ ret.max_cell_walk = call.args[7]
        /\ ret.boundaries = call.args[3]
        /\ ret.periodic = IF IsNone(call.args[5]) THEN PyList(<<>>)
                          ELSE PyList(SelectNonEmpty(call.args[5].split))

(***************************************************************************)
(* Faces of a 2D mesh.  Coordinates are rationals; a length that is no     *)
(* rational is kept as the square root of its square.  A sparse matrix     *)
(* (elements, ~neighbors) is the function from its stored index pairs,     *)
(* counted from 0 as in the code, to their values.                         *)
(***************************************************************************)
ValLess(a, b) == a.n * b.d < b.n * a.d

VecAdd(a, b) == [i \in 1..Len(a) |-> ValAdd(a[i], b[i])]

VecSub(a, b) == [i \in 1..Len(a) |-> ValSub(a[i], b[i])]

VecScale(s, a) == [i \in 1..Len(a) |-> ValMul(s, a[i])]

RECURSIVE Dot(_, _)
Dot(a, b) ==
    IF a = <<>> THEN tensor(0)
    ELSE ValAdd(ValMul(Head(a), Head(b)), Dot(Tail(a), Tail(b)))

RECURSIVE VecSum(_, _)
VecSum(vectors, zero) ==
    IF vectors = <<>> THEN zero ELSE VecAdd(Head(vectors), VecSum(Tail(vectors), zero))

IsSquare(n) == \E r \in 0..n : r * r = n

sqrt(v) ==
    IF IsSquare(v.n) /\ IsSquare(v.d)
    THEN Rat(CHOOSE r \in 0..v.n : r * r = v.n, CHOOSE r \in 0..v.d : r * r = v.d)
    ELSE [sqrt |-> v]

vec_length(v) == sqrt(Dot(v, v))

vec_normalize(v) ==
    LET length == vec_length(v)
    IN  IF "sqrt" \in DOMAIN length
        THEN [i \in 1..Len(v) |-> [num |-> v[i], over |-> length]]
        ELSE [i \in 1..Len(v) |-> ValDiv(v[i], length)]

SparseMatrix(entries) == [entries |-> entries]

\* the stored neighbor indices of row `cell`
StoredIn(matrix, cell) == {p[2] : p \in {q \in DOMAIN matrix.entries : q[1] = cell}}

\* to_format(elements, 'coo'): the global position, counted from 0, of the
\* first stored entry of row e (counted from 1)
RECURSIVE first_ptr(_, _)
first_ptr(rows, e) == IF e = 1 THEN 0 ELSE first_ptr(rows, e - 1) + Len(rows[e - 1])

\* wrap(v, 'line:i,vert:i=(start,end)') for all non-periodic boundaries: the
\* virtual two-vertex rows in the order of the dict
RECURSIVE BoundaryRows(_)
BoundaryRows(items) ==
    IF items = <<>> THEN <<>> ELSE Head(items).value \o BoundaryRows(Tail(items))

\* boundary_slices[bnd_key] = {nb_dim: slice(end, end + lines)}
RECURSIVE BoundarySlices(_, _)
BoundarySlices(items, end) ==
    IF items = <<>> THEN <<>>
    ELSE <<Item(Head(items).key,
                [start |-> end, stop |-> end + Len(Head(items).value)])>>
         \o BoundarySlices(Tail(items), end + Len(Head(items).value))

\* an entry of el_coo @ bnd_el_coo.T: the number of stored entries of
\* element e whose vertex row j holds.  el_coo is an int32 matrix, in which
\* the entries that periodicity maps to one vertex add up; bnd_el_coo is a
\* bool matrix, in which they count once.
num_shared_vertices(rows, all_rows, e, j) ==
    Cardinality({k \in 1..Len(rows[e]) : rows[e][k] \in Range(all_rows[j])})

\* the four alternating patterns over the stored entries of el_coo
alt1(g) == g % 2

alt2(rows, g) ==
    IF \E e \in 1..Len(rows) : g = first_ptr(rows, e) THEN alt1(g) ELSE 1 - alt1(g)

alt3(rows, g) ==
    IF \E e \in 1..Len(rows) : g = first_ptr(rows, e) + Len(rows[e]) - 1
    THEN alt1(g) ELSE 1 - alt1(g)

alt(rows, pattern, g) ==
    CASE pattern = 1 -> alt1(g)
      [] pattern = 2 -> 1 - alt1(g)
      [] pattern = 3 -> alt2(rows, g)
      [] pattern = 4 -> alt3(rows, g)

\* an entry of el_coo @ bnd_el_coo_v_idx.T with el_coo.data = alt + 1e-10,
\* cast to int32: the sum of vertex index + 1 over the shared vertices that
\* the pattern marks
RECURSIVE alt_v_idx(_, _, _, _, _, _)
alt_v_idx(rows, all_rows, pattern, e, j, k) ==
    IF k = 0 THEN 0
    ELSE alt_v_idx(rows, all_rows, pattern, e, j, k - 1)
         + alt(rows, pattern, first_ptr(rows, e) + k - 1) * (rows[e][k] + 1)
           * Cardinality({l \in 1..Len(all_rows[j]) : all_rows[j][l] = rows[e][k]})

\* np.sort of a row of four values
RECURSIVE np_sort(_)
np_sort(seq) ==
    IF seq = <<>> THEN <<>>
    ELSE LET n == Len(seq)
             rest == np_sort(SubSeq(seq, 1, n - 1))
             k == Cardinality({i \in 1..Len(rest) : rest[i] <= seq[n]})
         IN  SubSeq(rest, 1, k) \o <<seq[n]>> \o SubSeq(rest, k + 1, Len(rest))

\* the first two values of a sorted row v
FirstPair(v) == <<v[1], v[2]>>

\* first_index = np.argmax((v[1:] > v[:-1]) & (v[:-1] >= 0)) and the pair
\* (v[first_index], v[first_index + 1]) of a sorted row v
FirstAscendingPair(v) ==
    LET ascending == {i \in 1..3 : v[i + 1] > v[i] /\ v[i] >= 0}
        first_index == IF ascending = {} THEN 1
                       ELSE CHOOSE i \in ascending : \A i2 \in ascending : i <= i2
    IN  <<v[first_index], v[first_index + 1]>>

\* np.sort(...) - 1
SortedMinusOne(values) == [i \in 1..Len(values) |-> np_sort(values)[i] - 1]

\* the two vertices of the face between element e and row j
v_indices(rows, all_rows, e, j) ==
    FirstAscendingPair(SortedMinusOne(<<alt_v_idx(rows, all_rows, 1, e, j, Len(rows[e])),
                                        alt_v_idx(rows, all_rows, 2, e, j, Len(rows[e])),
                                        alt_v_idx(rows, all_rows, 3, e, j, Len(rows[e])),
                                        alt_v_idx(rows, all_rows, 4, e, j, Len(rows[e]))>>))

\* the stored index pairs (element, neighbor) of the faces, counted from 0:
\* neighbor_filter = np.where(num_shared_vertices.data == 2)
ConnectedPairs(rows, all_rows) ==
    {q \in (0..(Len(rows) - 1)) \X (0..(Len(all_rows) - 1)) :
        num_shared_vertices(rows, all_rows, q[1] + 1, q[2] + 1) = 2}

\* wrap(v_indices, 'vert:i=(start,end),edge:i')
StartEnd(pair) == [start |-> pair[1], end |-> pair[2]]

\* v_indices for every face
FaceVertexIndices(rows, all_rows, pairs) ==
    [q \in pairs |-> StartEnd(v_indices(rows, all_rows, q[1] + 1, q[2] + 1))]

(***************************************************************************)
(* Periodic axes.  The vertices of the upper boundary of a periodic axis   *)
(* get the index of a vertex of the lower boundary; the two sets of        *)
(* vertices are paired in the order in which Python iterates over them.    *)
(***************************************************************************)
SetMinSize == 8     \* PySet_MINSIZE: the slots of a set of up to 4 elements

NoKey == 0 - 1

\* a table of n unused slots
RECURSIVE EmptyTable(_)
EmptyTable(n) == IF n = 0 THEN <<>> ELSE <<NoKey>> \o EmptyTable(n - 1)

\* the slot that a key with first slot i gets in a table of SetMinSize
\* slots: i = (i * 5 + 1 + perturb) & mask with perturb = hash >> 5 = 0
RECURSIVE FreeSlot(_, _)
FreeSlot(table, i) ==
    IF table[i + 1] = NoKey THEN i ELSE FreeSlot(table, (i * 5 + 1) % SetMinSize)

\* the table of set(values), for up to 4 distinct values
RECURSIVE SetTable(_, _)
SetTable(values, table) ==
    IF values = <<>> THEN table
    ELSE IF Head(values) \in Range(table) THEN SetTable(Tail(values), table)
    ELSE SetTable(Tail(values),
                  [table EXCEPT ![FreeSlot(table, Head(values) % SetMinSize) + 1] = Head(values)])

\* list(set(values)) for vertex indices 0..31: the order of the slots; the
\* fifth distinct value makes the table grow to 32 slots, in which every
\* value has the slot of its own number
SetOrder(values) ==
    IF Cardinality(Range(values)) > SetMinSize \div 2
    THEN [r \in 1..Cardinality(Range(values)) |->
             CHOOSE v \in Range(values) : Cardinality({u \in Range(values) : u < v}) = r - 1]
    ELSE SelectSeq(SetTable(values, EmptyTable(SetMinSize)), LAMBDA v : v # NoKey)

\* flatten(edges): the vertices of the edges of a boundary, edge by edge
RECURSIVE flatten(_)
flatten(edges) == IF edges = <<>> THEN <<>> ELSE Head(edges) \o flatten(Tail(edges))

\* np.arange(n)
RECURSIVE arange(_)
arange(n) == IF n = 0 THEN <<>> ELSE arange(n - 1) \o <<n - 1>>

\* for lo_i, up_i in zip(set(flatten(lo_idx)), set(flatten(up_idx))):
\*     vertex_id[up_i] = lo_i
RECURSIVE MapUpperToLower(_, _, _)
MapUpperToLower(vertex_id, lo, up) ==
    IF lo = <<>> \/ up = <<>> THEN vertex_id
    ELSE MapUpperToLower([vertex_id EXCEPT ![Head(up) + 1] = Head(lo)], Tail(lo), Tail(up))

\* vertex_id after the loop over the periodic axes; vertex_id[v + 1] is the
\* index that stands for vertex v
RECURSIVE PeriodicVertexId(_, _, _)
PeriodicVertexId(vertex_id, boundaries, periodic) ==
    IF periodic = <<>> THEN vertex_id
    ELSE PeriodicVertexId(
             MapUpperToLower(vertex_id,
                             SetOrder(flatten(Lookup(boundaries, Head(periodic) \o "-"))),
                             SetOrder(flatten(Lookup(boundaries, Head(periodic) \o "+")))),
             boundaries, Tail(periodic))

\* vertex_id[col] for one row and for the rows of a matrix
RECURSIVE MapRow(_, _)
MapRow(row, vertex_id) ==
    IF row = <<>> THEN <<>>
    ELSE <<vertex_id[Head(row) + 1]>> \o MapRow(Tail(row), vertex_id)

RECURSIVE MapRows(_, _)
MapRows(rows, vertex_id) ==
    IF rows = <<>> THEN <<>>
    ELSE <<MapRow(Head(rows), vertex_id)>> \o MapRows(Tail(rows), vertex_id)

\* the boundaries that get virtual elements: bnd_key[:-1] not in periodic
NonPeriodic(items, periodic) ==
    SelectSeq(items, LAMBDA item : SubSeq(item.key, 1, Len(item.key) - 1) \notin Range(periodic))

\* a % b for b > 0
ValMod(a, b) == ValSub(a, ValMul(b, tensor(ValDiv(a, b).n \div ValDiv(a, b).d)))

\* PERIODIC.shortest_distance(start, end, domain_size)
shortest_distance(start, end, domain_size) ==
    ValSub(ValMod(ValAdd(ValSub(end, start), ValDiv(domain_size, tensor(2))), domain_size),
           ValDiv(domain_size, tensor(2)))

\* min / max of the vertex positions along the instance dimension
RowsMin(rows, axis) ==
    CHOOSE x \in {rows[v][axis] : v \in 1..Len(rows)} :
        \A v \in 1..Len(rows) : ~ValLess(rows[v][axis], x)

RowsMax(rows, axis) ==
    CHOOSE x \in {rows[v][axis] : v \in 1..Len(rows)} :
        \A v \in 1..Len(rows) : ~ValLess(x, rows[v][axis])

\* the position that index i of an array of n entries stands for: a negative
\* index counts from the end
Wrapped(i, n) == IF i < 0 THEN i + n ELSE i

\* v_pos = vertices[v_indices]; along a periodic axis the position closest
\* to the center of the cell
v_pos(vertices, index, periodic, cell_center) ==
    [a \in 1..Len(vertices.item_names) |->
        IF vertices.item_names[a] \in Range(periodic)
        THEN ValAdd(cell_center[a],
                    shortest_distance(ValSub(cell_center[a], RowsMin(vertices.rows, a)),
                                      ValSub(vertices.rows[Wrapped(index, Len(vertices.rows)) + 1][a],
                                             RowsMin(vertices.rows, a)),
                                      ValSub(RowsMax(vertices.rows, a),
                                             RowsMin(vertices.rows, a))))
        ELSE vertices.rows[Wrapped(index, Len(vertices.rows)) + 1][a]]

\* edge_dir = v_pos.vert['end'] - v_pos.vert['start'] of face q
edge_dir(vertices, v, q, periodic, vertex_mean) ==
    VecSub(v_pos(vertices, v[q].end, periodic, vertex_mean[q[1] + 1]),
           v_pos(vertices, v[q].start, periodic, vertex_mean[q[1] + 1]))

\* the face information computed from the vertex pair of every face
FaceInformation(vertices, v, boundary_slices, periodic, vertex_mean) ==
    IF \E q \in DOMAIN v : {v[q].start, v[q].end} \ ((0 - Len(vertices.rows))..(Len(vertices.rows) - 1)) # {}
    THEN Raise("IndexError", <<"vertex index out of bounds">>)
    ELSE [center |-> SparseMatrix([q \in DOMAIN v |->
                        VecScale(Rat(1, 2),
                                 VecAdd(v_pos(vertices, v[q].end, periodic,
                                              vertex_mean[q[1] + 1]),
                                        v_pos(vertices, v[q].start, periodic,
                                              vertex_mean[q[1] + 1])))]),
          normal |-> SparseMatrix([q \in DOMAIN v |->
                        vec_normalize(
                            <<ValSub(tensor(0), edge_dir(vertices, v, q, periodic,
                                                         vertex_mean)[2]),
                              edge_dir(vertices, v, q, periodic, vertex_mean)[1]>>)]),
          area |-> SparseMatrix([q \in DOMAIN v |->
                        vec_length(edge_dir(vertices, v, q, periodic, vertex_mean))]),
          boundary_slices |-> boundary_slices,
          vertex_connectivity |-> None]

\* build_faces_2d from the rows of the elements and of the boundary faces
FacesOfRows(vertices, rows, all_rows, boundary_slices, periodic, vertex_mean) ==
    FaceInformation(vertices,
                    FaceVertexIndices(rows, all_rows, ConnectedPairs(rows, all_rows)),
                    boundary_slices, periodic, vertex_mean)

\* build_faces_2d once vertex_id is known; `items` are the boundaries that
\* are not periodic
FacesOfBoundaries(vertices, rows, items, vertex_id, periodic, vertex_mean) ==
    FacesOfRows(vertices, MapRows(rows, vertex_id),
                MapRows(MapRows(rows, vertex_id) \o BoundaryRows(items), vertex_id),
                PyDict(BoundarySlices(items, Len(rows))), periodic, vertex_mean)

\* build_faces_2d(vertices, elements, boundaries, periodic, vertex_mean,
\* face_format): (edge_center, normal, edge_len, boundary_slices,
\* vertex_connectivity)
build_faces_2d(vertices, elements, boundaries, periodic, vertex_mean, face_format) ==
    IF IsNone(boundaries)
    THEN Raise("AttributeError", <<"'NoneType' object has no attribute 'items'">>)
    ELSE FacesOfBoundaries(vertices, elements.rows,
                           NonPeriodic(boundaries.dict, periodic.list),
                           PeriodicVertexId(arange(Len(vertices.rows)),
                                            boundaries, periodic.list),
                           periodic.list, vertex_mean)

\* Mesh.cell_count
cell_count(self) == Len(self.elements.rows)

\* Geometry.spatial_rank: the number of vector components
Mesh_spatial_rank(self) == Len(Center(self.vertices).item_names)

\* Mesh._vertex_mean: the mean vertex location of each element
_vertex_mean(self) ==
    [e \in 1..cell_count(self) |->
        LET row == self.elements.rows[e]
            positions == [k \in 1..Len(row) |-> Center(self.vertices).rows[row[k] + 1]]
            zero == [i \in 1..Mesh_spatial_rank(self) |-> tensor(0)]
        IN  VecScale(Rat(1, Len(row)), VecSum(positions, zero))]

\* Mesh._faces
_faces(self) ==
    IF self.element_rank = PyInt(2)
    THEN build_faces_2d(Center(self.vertices), self.elements, self.boundaries,
                        self.periodic, _vertex_mean(self), self.face_format)
    ELSE None

\* faces[key] for the value of self._faces
FacesItem(faces, key) ==
    IF IsNone(faces)
    THEN Raise("TypeError", <<"'NoneType' object is not subscriptable">>)
    ELSE IF IsRaise(faces) THEN faces
    ELSE faces[key]

\* Mesh.face_centers
face_centers(self) == FacesItem(_faces(self), "center")

\* Mesh.face_areas
face_areas(self) == FacesItem(_faces(self), "area")

\* Mesh.boundary_faces
boundary_faces(self) == FacesItem(_faces(self), "boundary_slices")

\* Mesh.element_connectivity / Mesh.connectivity
element_connectivity(self) ==
    IF self.element_rank = PyInt(Mesh_spatial_rank(self))
    THEN LET areas == face_areas(self)
         IN  IF IsRaise(areas) THEN areas
             ELSE SparseMatrix([p \in DOMAIN areas.entries |-> TRUE])
    ELSE SparseMatrix([p \in {q \in (0..(cell_count(self) - 1)) \X (0..(cell_count(self) - 1)) :
                                 Range(self.elements.rows[q[1] + 1])
                                 \cap Range(self.elements.rows[q[2] + 1]) # {}} |-> TRUE])

\* Mesh.cell_connectivity: connectivity[interior_faces]
cell_connectivity(self) ==
    LET connectivity == element_connectivity(self)
    IN  IF IsRaise(connectivity) THEN connectivity
        ELSE SparseMatrix([p \in {q \in DOMAIN connectivity.entries : q[2] < cell_count(self)} |->
                              connectivity.entries[p]])

\* Mesh.boundary_connectivity: connectivity[all_boundary_faces]
boundary_connectivity(self) ==
    LET connectivity == element_connectivity(self)
    IN  IF IsRaise(connectivity) THEN connectivity
        ELSE SparseMatrix([p \in {<<q[1], q[2] - cell_count(self)>> :
                                     q \in {q2 \in DOMAIN connectivity.entries :
                                               q2[2] >= cell_count(self)}} |->
                              connectivity.entries[<<p[1], p[2] + cell_count(self)>>]])

\* Box(x=(lower, upper), y=(lower, upper))
BoundsBox(lower, upper) == [cls |-> "Box", lower |-> lower, upper |-> upper]

\* range_tensor(resolution + 1): the index of grid vertex (i, j)
vert_id(resolution, i, j) == i * (resolution[2] + 1) + j

\* all_faces(ids, edge_mask, dim) without obstacles: the edges between
\* consecutive vertices
all_faces(ids) == [k \in 1..(Len(ids) - 1) |-> <<ids[k], ids[k + 1]>>]

\* a coordinate outside [lower, upper] moved to the nearer end
Clipped(x, lower, upper) ==
    IF ValLess(x, lower) THEN lower ELSE IF ValLess(upper, x) THEN upper ELSE x

\* Box.push(positions, outward=False) for positions in the plane: a
\* position outside the box is moved onto it along every axis on which it
\* lies outside
RECURSIVE Box_push_inward(_, _)
Box_push_inward(self, positions) ==
    IF positions = <<>> THEN <<>>
    ELSE <<<<Clipped(Head(positions)[1], self.lower[1], self.upper[1]),
             Clipped(Head(positions)[2], self.lower[2], self.upper[2])>>>>
         \o Box_push_inward(self, Tail(positions))

\* build_quadrilaterals(vert_pos, resolution, obstacles, bounds, min_size)
\* without obstacles, for two dimensions x, y: (vert_pos, polygons, boundaries)
build_quadrilaterals(vert_pos, resolution, bounds) ==
    LET nx == resolution[1]
        ny == resolution[2]
        column(i) == [j \in 1..(ny + 1) |-> vert_id(resolution, i, j - 1)]
        line(j) == [i \in 1..(nx + 1) |-> vert_id(resolution, i - 1, j)]
        cell(c) == <<c \div ny, c % ny>>
    IN  [vert_pos |-> Box_push_inward(bounds, vert_pos),
         polygons |-> [c \in 1..(nx * ny) |->
                         LET i == cell(c - 1)[1]
                             j == cell(c - 1)[2]
                         IN  <<vert_id(resolution, i, j), vert_id(resolution, i, j + 1),
                               vert_id(resolution, i + 1, j + 1), vert_id(resolution, i + 1, j)>>],
         boundaries |-> PyDict(<<Item("x-", all_faces(column(0))),
                                 Item("x+", all_faces(column(nx))),
                                 Item("y-", all_faces(line(0))),
                                 Item("y+", all_faces(line(ny)))>>)]

\* meshgrid(resolution + 1) / resolution * bounds.size + bounds.lower: the
\* vertices of the uniform grid, the second axis running fastest
grid_vert_pos(bounds, resolution) ==
    LET size == VecSub(bounds.upper, bounds.lower)
        count == (resolution[1] + 1) * (resolution[2] + 1)
    IN  [v \in 1..count |->
            LET i == (v - 1) \div (resolution[2] + 1)
                j == (v - 1) % (resolution[2] + 1)
            IN  <<ValAdd(ValMul(Rat(i, resolution[1]), size[1]), bounds.lower[1]),
                  ValAdd(ValMul(Rat(j, resolution[2]), size[2]), bounds.lower[2])>>]

\* build_mesh(bounds, resolution) with obstacles=None, method='quad',
\* max_squish=.5.  regular_size = min(dx, channel) is a call of Python's min
\* and raises; build_quadrilaterals and mesh_from_numpy are not reached.
build_mesh(bounds, resolution, cell_dim, face_format) ==
    LET size == VecSub(bounds.upper, bounds.lower)
        vert_pos == grid_vert_pos(bounds, resolution)
        dx == [a \in 1..Len(size) |-> ValDiv(size[a], tensor(resolution[a]))]
    IN  builtin_min(dx, "channel")

\* build_single_mesh of build_mesh on the arrays of build_quadrilaterals:
\* mesh_from_numpy(points_np, polygon_list, boundaries, cell_dim, face_format)
\* for the uniform grid over bounds
build_single_mesh(bounds, resolution, cell_dim, face_format) ==
    LET quads == build_quadrilaterals(grid_vert_pos(bounds, resolution), resolution, bounds)
    IN  mesh_from_numpy(quads.vert_pos, quads.polygons, quads.boundaries, None, None,
                        cell_dim, face_format)

(***************************************************************************)
(* Calls that build a 2D mesh and its faces.                               *)
(***************************************************************************)
MaxResolution == 3      \* a grid has 1..MaxResolution cells along an axis

\* nine points on a grid three wide: point i at (i % 3, i / 3)
FacePoints == [i \in 1..9 |-> <<tensor((i - 1) % 3), tensor((i - 1) \div 3)>>]

Squares == {<<0, 1, 4, 3>>, <<1, 2, 5, 4>>, <<3, 4, 7, 6>>}

Triangles == {<<0, 1, 3>>, <<1, 4, 3>>, <<1, 2, 4>>, <<4, 5, 8>>}

Pentagons == {<<3, 4, 8, 7, 6>>}

Rotated(polygon, k) ==
    [i \in 1..Len(polygon) |-> polygon[((i - 1 + k) % Len(polygon)) + 1]]

Reversed(polygon) == [i \in 1..Len(polygon) |-> polygon[Len(polygon) + 1 - i]]

\* every way to list the vertices of a polygon along its boundary
Listings(polygon) ==
    {Rotated(polygon, k) : k \in 0..(Len(polygon) - 1)}
    \cup {Rotated(Reversed(polygon), k) : k \in 0..(Len(polygon) - 1)}

FacePolygons == UNION {Listings(p) : p \in Squares \cup Triangles \cup Pentagons}

FacePolygonLists ==
    {<<a, b>> : a \in FacePolygons, b \in Squares \cup Triangles \cup Pentagons}
    \cup {<<b, a>> : a \in FacePolygons, b \in Squares \cup Triangles \cup Pentagons}
    \cup {<<a, b, c>> : a \in Triangles \cup Pentagons, b \in Squares \cup Triangles,
                        c \in Squares \cup Triangles \cup Pentagons}

FaceBoundaries ==
    {None, PyDict(<<>>), PyDict(<<Item("wall", <<<<0, 1>>, <<2, 1>>>>), Item("top", <<<<7, 6>>>>)>>)}

GridBounds ==
    {BoundsBox(<<tensor(0), tensor(0)>>, <<tensor(1), tensor(1)>>),
     BoundsBox(<<tensor(-1), tensor(0)>>, <<tensor(1), tensor(3)>>)}

\* two vertices follow each other on the boundary of a polygon
Adjacent(polygon, a, b) ==
    \E k \in 1..Len(polygon) :
        {polygon[k], polygon[(k % Len(polygon)) + 1]} = {a, b}

\* the polygons of a mesh are distinct and meet in whole edges: two common
\* vertices of two polygons follow each other in both
MeetInEdges(polygons) ==
    \A i, j \in 1..Len(polygons) :
        i # j =>
            /\ Range(polygons[i]) # Range(polygons[j])
            /\ \A a, b \in Range(polygons[i]) \cap Range(polygons[j]) :
                   (a # b /\ Cardinality(Range(polygons[i]) \cap Range(polygons[j])) = 2) =>
                       Adjacent(polygons[i], a, b) /\ Adjacent(polygons[j], a, b)

InitFaces ==
    /\ ret = Pending
    /\ files = NoFiles
    /\ demo = NoDemo
    /\ meshes = NoMeshes
    /\ \/ \E polygons \in FacePolygonLists, b \in FaceBoundaries :
             /\ MeetInEdges(polygons)
             /\ call = Call("face_areas", <<FacePoints, polygons, b>>)
       \/ \E bounds \in GridBounds, nx \in {1, MaxResolution}, ny \in 1..MaxResolution,
             f \in FaceFormats, fn \in {"build_mesh", "build_single_mesh"} :
             call = Call(fn, <<bounds, <<nx, ny>>, f>>)

\* mesh_from_numpy(points, polygons, boundaries).face_areas
FaceAreas ==
    /\ ret = Pending
    /\ call.fn = "face_areas"
    /\ LET m == mesh_from_numpy(call.args[1], call.args[2], call.args[3], None, None,
                                "cells", PyStr("csc"))
       IN  ret' = IF IsRaise(m) THEN m ELSE face_areas(m)
    /\ UNCHANGED <<call, files, meshes, demo>>

BuildMesh ==
    /\ ret = Pending
    /\ call.fn = "build_mesh"
    /\ ret' = build_mesh(call.args[1], call.args[2], "cells", call.args[3])
    /\ UNCHANGED <<call, files, meshes, demo>>

\* mesh_from_numpy on the arrays that build_quadrilaterals gives for the
\* uniform grid
BuildSingleMesh ==
    /\ ret = Pending
    /\ call.fn = "build_single_mesh"
    /\ ret' = build_single_mesh(call.args[1], call.args[2], "cells", call.args[3])
    /\ UNCHANGED <<call, files, meshes, demo>>

NextFaces == FaceAreas \/ BuildMesh \/ BuildSingleMesh

SpecFaces == InitFaces /\ [][NextFaces]_vars

\* the square of a face area
AreaSquared(area) == IF "sqrt" \in DOMAIN area THEN area.sqrt ELSE ValMul(area, area)

\* the faces between the elements of a mesh are as the polygons say: one
\* stored entry for every ordered pair of distinct elements that share an
\* edge, its area the length of that edge, and none for a pair that shares
\* fewer than two vertices
InteriorFaces(areas, points, polygons) ==
    \A e, f \in 1..Len(polygons) :
        LET common == Range(polygons[e]) \cap Range(polygons[f])
        IN  /\ (e # f /\ Cardinality(common) = 2
                 /\ \E a, b \in common :
                        a # b /\ Adjacent(polygons[e], a, b) /\ Adjacent(polygons[f], a, b)) =>
                   /\ <<e - 1, f - 1>> \in DOMAIN areas.entries
                   /\ \E a, b \in common :
                        /\ a # b
                        /\ AreaSquared(areas.entries[<<e - 1, f - 1>>])
                               = Dot(VecSub(points[a + 1], points[b + 1]),
                                     VecSub(points[a + 1], points[b + 1]))
            /\ Cardinality(common) < 2 => <<e - 1, f - 1>> \notin DOMAIN areas.entries

\* C14: for 2D polygons given to mesh_from_numpy, face building yields one
\* interior connection per ordered pair of distinct elements that share an
\* edge, none for pairs that share fewer than two vertices, and the
\* face_areas entry of a connection is the length of the shared edge.
C14_InteriorFaces ==
    (call.fn = "face_areas" /\ Returned) =>
        /\ ~IsRaise(ret)
        /\ InteriorFaces(ret, Arg1, Arg2)

\* What face building does guarantee: the faces are right whenever the
\* boundaries are given as a dict, which may be empty.
FacesWithBoundaryDict ==
    (call.fn = "face_areas" /\ Returned /\ ~IsNone(call.args[3])) =>
        /\ ~IsRaise(ret)
        /\ InteriorFaces(ret, Arg1, Arg2)

\* the cells next to cell c of an nx by ny grid, cells counted row by row
GridNeighbors(nx, ny, c) ==
    {d \in 0..(nx * ny - 1) :
        \/ d \div ny = c \div ny /\ Abs((d % ny) - (c % ny)) = 1
        \/ d % ny = c % ny /\ Abs((d \div ny) - (c \div ny)) = 1}

\* the result of a call is the mesh of the grid of nx by ny cells: it has
\* nx * ny cells, the cell_connectivity of a cell holds exactly its
\* neighbouring cells, and its boundary_connectivity 4 minus that many
GridConnectivity(fn) ==
    (call.fn = fn /\ Returned) =>
        LET nx == Arg2[1]
            ny == Arg2[2]
            cells == cell_connectivity(ret)
            boundary == boundary_connectivity(ret)
        IN  /\ IsMesh(ret)
            /\ cell_count(ret) = nx * ny
            /\ \A c \in 0..(nx * ny - 1) :
                 /\ StoredIn(cells, c) = GridNeighbors(nx, ny, c)
                 /\ Cardinality(StoredIn(boundary, c))
                        = 4 - Cardinality(GridNeighbors(nx, ny, c))

\* C15: build_mesh over a box with resolution (nx, ny) and no obstacles
\* has nx * ny cells; the cell_connectivity of a cell holds exactly its
\* neighbouring cells, 4 for a cell with four neighbours, and its
\* boundary_connectivity holds 4 minus that many entries.
C15_GridConnectivity == GridConnectivity("build_mesh")

\* The mesh that mesh_from_numpy builds from the vertices, polygons and
\* boundaries of the grid has the connectivity of the grid.
GridArraysConnectivity == GridConnectivity("build_single_mesh")

\* build_mesh with method 'quad' raises at its call of min
BuildMeshRaises ==
    (call.fn = "build_mesh" /\ Returned) => (IsRaise(ret) /\ ret.raise = "TypeError")

\* a grid of 3 by 3 cells: the middle cell has four neighbours, a corner
\* cell two boundary faces
GridArraysWitness ==
    /\ call.fn = "build_single_mesh" /\ IsMesh(ret)
    /\ Arg1 = BoundsBox(<<tensor(0), tensor(0)>>, <<tensor(1), tensor(1)>>)
    /\ Arg2 = <<3, 3>>
    /\ Cardinality(StoredIn(cell_connectivity(ret), 4)) = 4
    /\ Cardinality(StoredIn(boundary_connectivity(ret), 0)) = 2

(***************************************************************************)
(* Operations that derive a mesh from a mesh.  Mesh is a frozen dataclass: *)
(* no method assigns to a field, so the Mesh objects constructed so far    *)
(* (`meshes`, in order of construction) can only grow.  Reading an         *)
(* attribute that an object does not have raises AttributeError.           *)
(***************************************************************************)
\* the attributes of a scipy coo_matrix that the module reads
CooMatrixAttributes == {"row", "col", "data", "shape", "T", "sum", "nonzero", "astype"}

\* the functions of numpy that the module reads
NumpyAttributes ==
    {"asarray", "cumsum", "arange", "concatenate", "ones", "ones_like", "where", "pad",
     "sort", "stack", "argmax", "all", "load", "savez", "int32"}

\* the dataclass fields, properties and methods of Mesh
MeshAttributes ==
    Range(MeshFields)
    \cup {"shape", "cell_count", "center", "_vertex_mean", "face_centers", "face_areas",
          "face_normals", "_faces", "face_shape", "sets", "get_points", "get_boundary",
          "boundary_elements", "boundary_faces", "all_boundary_faces", "interior_faces",
          "pad_boundary", "cell_connectivity", "boundary_connectivity", "distance_matrix",
          "faces_to_vertices", "_cell_deltas", "relative_face_distance", "neighbor_offsets",
          "neighbor_distances", "faces", "connectivity", "element_connectivity",
          "vertex_connectivity", "vertex_graph", "filter_unused_vertices", "volume",
          "normals", "vertex_normals", "vertex_positions", "lies_inside",
          "approximate_signed_distance", "approximate_closest_surface", "cell_walk_towards",
          "sample_uniform", "bounding_radius", "bounding_half_extent", "bounding_box",
          "bounds", "at", "shifted", "rotated", "scaled"}

AttributeError(owner, name) ==
    Raise("AttributeError", <<"'" \o owner \o "' object has no attribute '" \o name \o "'">>)

\* the first of the attribute reads `names`, in evaluation order, that fails
\* on a Mesh; 0 if all succeed
FirstMissingAttribute(names) ==
    IF \A i \in 1..Len(names) : names[i] \in MeshAttributes THEN 0
    ELSE CHOOSE i \in 1..Len(names) :
            /\ names[i] \notin MeshAttributes
            /\ \A j \in 1..(i - 1) : names[j] \in MeshAttributes

\* Mesh.filter_unused_vertices
filter_unused_vertices(self) ==
    LET rows == self.elements.rows
        positions == Center(self.vertices)
        count == Len(positions.rows)
    IN  IF "sum_" \notin CooMatrixAttributes THEN AttributeError("coo_matrix", "sum_")
        ELSE
        LET has_element == [v \in 1..count |-> \E e \in 1..Len(rows) : (v - 1) \in Range(rows[e])]
        IN  IF "cumsum_" \notin NumpyAttributes THEN AttributeError("numpy", "cumsum_")
            ELSE
            LET new_index == [v \in 1..count |-> Cardinality({u \in 1..v : has_element[u]}) - 1]
                kept == SelectSeq([v \in 1..count |-> v], LAMBDA v : has_element[v])
                vertices == Point(VertexTensor(positions.instance, positions.channel,
                                               positions.item_names,
                                               [i \in 1..Len(kept) |-> positions.rows[kept[i]]]))
                indices == [e \in 1..Len(rows) |->
                               [k \in 1..Len(rows[e]) |-> new_index[rows[e][k] + 1]]]
                elements == [self.elements EXCEPT !.rows = indices]
                reads == <<"_vertex_normals", "_vertex_connectivity", "_center", "_volume",
                           "_normals", "face_centers", "face_normals", "face_areas",
                           "_element_connectivity", "_max_cell_walk">>
                missing == FirstMissingAttribute(reads)
            IN  IF missing # 0 THEN AttributeError("Mesh", reads[missing])
                ELSE _MeshType__call__(<<vertices, elements, self.element_rank, self.boundaries,
                                         None, None, None, None, None, None, None, None, None,
                                         None, None>>)

\* a tensor of vectors along one dimension `dim`; a single vector has no
\* dimension besides `vector`
VectorTensor(dim, rows) == [cls |-> "Tensor", dim |-> dim, rows |-> rows]

\* Point.shifted(delta) / Point.at(center) for one vector per vertex or one
\* vector for all
Point_shifted(self, delta) ==
    Point([self.center EXCEPT !.rows =
              [v \in 1..Len(self.center.rows) |->
                  VecAdd(self.center.rows[v],
                         IF delta.dim = NoDim THEN delta.rows[1] ELSE delta.rows[v])]])

Point_at(self, center) == Point([self.center EXCEPT !.rows = center.rows])

\* the box that the vertices of a mesh span
VertexBox(self) ==
    LET rows == Center(self.vertices).rows
    IN  BoundsBox([a \in 1..Len(rows[1]) |-> RowsMin(rows, a)],
                  [a \in 1..Len(rows[1]) |-> RowsMax(rows, a)])

\* Mesh.bounds: Box(min(self.vertices.center, instance),
\*                  max(self.vertices.center, instance)); the arguments of
\* Box are evaluated from left to right
Mesh_bounds(self) ==
    LET lower == builtin_min(Center(self.vertices), "instance")
        upper == builtin_max(Center(self.vertices), "instance")
    IN  IF IsRaise(lower) THEN lower
        ELSE IF IsRaise(upper) THEN upper
        ELSE BoundsBox(lower, upper)

\* Box.center
Box_center(box) == VecScale(Rat(1, 2), VecAdd(box.lower, box.upper))

\* Mesh.shifted
shifted(self, delta0) ==
    IF delta0.dim = self.elements.instance
    THEN Raise("NotImplementedError",
               <<"Shifting Mesh positions only supported for vertices, not elements">>)
    ELSE
    LET delta == IF delta0.dim # NoDim /\ delta0.dim = self.elements.dual
                 THEN VectorTensor(Center(self.vertices).instance, delta0.rows)
                 ELSE delta0
    IN  IF delta.dim = Center(self.vertices).instance
        THEN mesh(Point_shifted(self.vertices, delta), self.elements, self.boundaries,
                  None, None, PyStr("csc"), None)
        ELSE LET vertices == Point_shifted(self.vertices, delta)
                 reads == <<"_center", "_volume", "_normals", "face_centers", "face_normals",
                            "face_areas", "face_vertices", "_vertex_normals",
                            "_vertex_connectivity", "_element_connectivity", "_max_cell_walk">>
                 missing == FirstMissingAttribute(reads)
             IN  IF missing # 0 THEN AttributeError("Mesh", reads[missing])
                 ELSE _MeshType__call__(<<vertices, self.elements, self.element_rank,
                                          self.boundaries, None, None, None, None, None, None,
                                          None, None, None, None, None>>)

\* Mesh.at
at(self, center0) ==
    IF center0.dim = self.elements.instance
    THEN Raise("NotImplementedError",
               <<"Setting Mesh positions only supported for vertices, not elements">>)
    ELSE
    LET center == IF center0.dim # NoDim /\ center0.dim = self.elements.dual
                  THEN VectorTensor(Center(self.vertices).instance, center0.rows)
                  ELSE center0
    IN  IF center.dim = Center(self.vertices).instance
        THEN mesh(Point_at(self.vertices, center), self.elements, self.boundaries,
                  None, None, PyStr("csc"), None)
        ELSE LET bounds == Mesh_bounds(self)
             IN  IF IsRaise(bounds) THEN bounds
                 ELSE shifted(self, VectorTensor(NoDim, <<VecSub(center.rows[1],
                                                                 Box_center(bounds))>>))

\* Mesh.scaled
scaled(self, factor) ==
    LET bounds == Mesh_bounds(self)
        pivot == Box_center(bounds)
        vertices == Point([Center(self.vertices) EXCEPT !.rows =
                       [v \in 1..Len(Center(self.vertices).rows) |->
                           VecAdd(pivot, VecScale(factor,
                                      VecSub(Center(self.vertices).rows[v], pivot)))]])
        reads == <<"_center", "_volume", "_normals", "face_centers", "face_normals",
                   "face_vertices", "_vertex_normals", "_vertex_connectivity",
                   "_element_connectivity", "_max_cell_walk">>
        missing == FirstMissingAttribute(reads)
    IN  IF IsRaise(bounds) THEN bounds
        ELSE IF missing # 0 THEN AttributeError("Mesh", reads[missing])
        ELSE _MeshType__call__(<<vertices, self.elements, self.element_rank, self.boundaries,
                                 None, None, None, None, None, None, None, None, None, None,
                                 None>>)

(***************************************************************************)
(* SpecEdit: a program that constructs a mesh and then calls shifted, at,  *)
(* scaled and filter_unused_vertices on the meshes it holds, keeping every *)
(* mesh that a call returns.                                               *)
(***************************************************************************)
MaxMeshes == 3      \* the program holds at most MaxMeshes meshes

\* six points on a grid three wide
EditPoints == SubSeq(FacePoints, 1, 6)

\* polygon lists that leave some vertices unused; one vertex count per
\* polygon (compact storage) and mixed (general sparse storage)
EditPolygonLists ==
    {<<<<0, 1, 4>>>>, <<<<0, 1, 3>>, <<1, 4, 3>>>>, <<<<0, 1, 4, 3>>, <<1, 2, 4>>>>,
     <<<<0, 1, 4, 3>>, <<1, 2, 5, 4>>>>}

EditVectors == {<<tensor(1), tensor(0)>>, <<tensor(0), tensor(2)>>}

\* one vector for all vertices, one per vertex (instance or dual dimension)
\* and one per element
EditTensors(self) ==
    {VectorTensor(NoDim, <<d>>) : d \in EditVectors}
    \cup {VectorTensor(dim, [v \in 1..Len(Center(self.vertices).rows) |-> d]) :
             dim \in {"vertices", "~vertices"}, d \in EditVectors}
    \cup {VectorTensor(self.elements.instance, [e \in 1..Len(self.elements.rows) |-> d]) :
             d \in EditVectors}

EditFactors == {tensor(2)}

InitEdit ==
    /\ ret = Pending
    /\ files = NoFiles
    /\ demo = NoDemo
    /\ \E polygons \in EditPolygonLists, b \in {None, PyDict(<<>>)} :
          /\ call = Call("mesh_from_numpy", <<EditPoints, polygons, b>>)
          /\ meshes = <<mesh_from_numpy(EditPoints, polygons, b, None, None, "cells",
                                        PyStr("csc"))>>

\* the mesh that a call returned is kept
Keep(result) == IF IsMesh(result) THEN Append(meshes, result) ELSE meshes

Shifted ==
    /\ Len(meshes) < MaxMeshes
    /\ \E i \in 1..Len(meshes) : \E delta \in EditTensors(meshes[i]) :
          /\ call' = Call("shifted", <<i, delta>>)
          /\ ret' = shifted(meshes[i], delta)
          /\ meshes' = Keep(ret')
    /\ UNCHANGED <<files, demo>>

At ==
    /\ Len(meshes) < MaxMeshes
    /\ \E i \in 1..Len(meshes) : \E center \in EditTensors(meshes[i]) :
          /\ call' = Call("at", <<i, center>>)
          /\ ret' = at(meshes[i], center)
          /\ meshes' = Keep(ret')
    /\ UNCHANGED <<files, demo>>

Scaled ==
    /\ Len(meshes) < MaxMeshes
    /\ \E i \in 1..Len(meshes) : \E factor \in EditFactors :
          /\ call' = Call("scaled", <<i, factor>>)
          /\ ret' = scaled(meshes[i], factor)
          /\ meshes' = Keep(ret')
    /\ UNCHANGED <<files, demo>>

FilterUnusedVertices ==
    /\ Len(meshes) < MaxMeshes
    /\ \E i \in 1..Len(meshes) :
          /\ call' = Call("filter_unused_vertices", <<i>>)
          /\ ret' = filter_unused_vertices(meshes[i])
          /\ meshes' = Keep(ret')
    /\ UNCHANGED <<files, demo>>

NextEdit == Shifted \/ At \/ Scaled \/ FilterUnusedVertices

SpecEdit == InitEdit /\ [][NextEdit]_vars

\* the vertices that no element of the mesh lists, counted from 0
UnusedVertices(self) ==
    {v \in 0..(Len(Center(self.vertices).rows) - 1) :
        \A e \in 1..Len(self.elements.rows) : v \notin Range(self.elements.rows[e])}

\* the number of used vertices before vertex v
Renumbered(self, v) == Cardinality((0..(v - 1)) \ UnusedVertices(self))

\* C16: filter_unused_vertices on a mesh with k vertices referenced by no
\* element returns a mesh with exactly k fewer vertices in which every
\* element lists the same vertices as before, renumbered in order (new index
\* of a kept vertex = number of kept vertices before it), for compact and
\* for general sparse element storage.
C16_FilterUnusedVertices ==
    (call.fn = "filter_unused_vertices" /\ Returned) =>
        LET self == meshes[call.args[1]]
        IN  /\ IsMesh(ret)
            /\ Len(Center(ret.vertices).rows)
                   = Len(Center(self.vertices).rows) - Cardinality(UnusedVertices(self))
            /\ Len(ret.elements.rows) = Len(self.elements.rows)
            /\ \A e \in 1..Len(self.elements.rows) :
                   ret.elements.rows[e]
                       = [k \in 1..Len(self.elements.rows[e]) |->
                             Renumbered(self, self.elements.rows[e][k])]

\* The part of the frame condition that holds: no call changes or removes a
\* mesh that exists.
ExistingMeshesUnchanged ==
    [][/\ Len(meshes') >= Len(meshes)
       /\ \A i \in 1..Len(meshes) : meshes'[i] = meshes[i]]_vars

\* a call of SpecEdit either returned a Mesh or refused a tensor that holds
\* one vector per element
ReturnsNewMesh(result) ==
    \/ IsMesh(result)
    \/ IsRaise(result) /\ result.raise = "NotImplementedError"

\* C20: after any sequence of shifted, scaled, at and filter_unused_vertices
\* calls, every Mesh that existed before a call is the same as before it;
\* each call returns a new Mesh and changes no existing one.
C20_NewMeshEachCall ==
    [][/\ \A i \in 1..Len(meshes) : Len(meshes') >= i /\ meshes'[i] = meshes[i]
       /\ ReturnsNewMesh(ret')]_vars

\* The calls that do return a new mesh: shifted and at with one vector per
\* vertex.
PerVertexReturnsMesh ==
    (call.fn \in {"shifted", "at"} /\ Returned /\ call.args[2].dim \in {"vertices", "~vertices"})
        => IsMesh(ret)

\* scaled, and at with one center for the whole mesh, read self.bounds
\* first, which raises at its call of min; shifted with one vector for the
\* whole mesh reads self._center
WholeMeshCallsRaise ==
    /\ (call.fn = "scaled" /\ Returned) => (IsRaise(ret) /\ ret.raise = "TypeError")
    /\ (call.fn = "at" /\ Returned /\ call.args[2].dim = NoDim)
           => (IsRaise(ret) /\ ret.raise = "TypeError")
    /\ (call.fn = "shifted" /\ Returned /\ call.args[2].dim = NoDim)
           => (IsRaise(ret) /\ ret.raise = "AttributeError")

\* the vertex positions that shifted(delta) / scaled(factor) give to the
\* vertices of `self`
TransformedRows(self, fn, arg) ==
    LET rows == Center(self.vertices).rows
        pivot == Box_center(VertexBox(self))
    IN  [v \in 1..Len(rows) |->
            IF fn = "scaled" THEN VecAdd(pivot, VecScale(arg, VecSub(rows[v], pivot)))
            ELSE VecAdd(rows[v], IF arg.dim = NoDim THEN arg.rows[1] ELSE arg.rows[v])]

\* C21: the Mesh returned by scaled(factor) or shifted(delta) holds the
\* transformed vertices and the elements of the source mesh, and every
\* derived quantity it carries over (center, volume, face centers, normals,
\* areas) equals what recomputation from the new vertices gives; a Mesh that
\* carries none (only the dataclass fields) recomputes all of them.
C21_CarriedQuantities ==
    (call.fn \in {"scaled", "shifted"} /\ Returned
        /\ ~(IsRaise(ret) /\ ret.raise = "NotImplementedError")) =>
        LET self == meshes[call.args[1]]
        IN  /\ IsMesh(ret)
            /\ DOMAIN ret = DOMAIN self
            /\ ret.elements = self.elements
            /\ ret.element_rank = self.element_rank
            /\ Center(ret.vertices).rows = TransformedRows(self, call.fn, call.args[2])

\* The calls that build the result with mesh(): shifted with one vector per
\* vertex carries no derived quantity over, so all are recomputed from the
\* new vertices.
PerVertexShiftRecomputes ==
    (call.fn = "shifted" /\ Returned /\ call.args[2].dim \in {"vertices", "~vertices"}) =>
        LET self == meshes[call.args[1]]
        IN  /\ IsMesh(ret)
            /\ DOMAIN ret = DOMAIN self
            /\ ret.elements = self.elements
            /\ Center(ret.vertices).rows = TransformedRows(self, call.fn, call.args[2])

(***************************************************************************)
(* Triangle-mesh archives.  A file name is its directory part (empty for a *)
(* bare name), its stem and its extension; `files` is the sequence of the  *)
(* archives written so far, each under the name it has on disk.            *)
(***************************************************************************)
FileName(dir, stem, ext) == [dir |-> dir, stem |-> stem, ext |-> ext]

\* os.path.dirname(file)
dirname(file) == file.dir

\* os.makedirs(name, exist_ok=True)
makedirs(name) ==
    IF name = "" THEN Raise("FileNotFoundError", <<"No such file or directory: ''">>)
    ELSE None

\* np.savez(file, **arrays): the extension .npz is appended to a name that
\* lacks it; an archive of that name is replaced
savez(archives, file, arrays) ==
    LET target == IF file.ext = ".npz" THEN file ELSE [file EXCEPT !.ext = ".npz"]
    IN  SelectSeq(archives, LAMBDA a : a.file # target)
        \o <<[file |-> target, arrays |-> arrays]>>

\* np.load(file)
load(archives, file) ==
    IF \E i \in 1..Len(archives) : archives[i].file = file
    THEN archives[CHOOSE i \in 1..Len(archives) : archives[i].file = file].arrays
    ELSE Raise("FileNotFoundError", <<"No such file or directory">>)

\* save_tri_mesh(file, mesh) without extra data: the error raised, or the
\* files afterwards with the value returned
save_tri_mesh(archives, file, self) ==
    IF self.elements.cls # "CompactSparseTensor" THEN Raise("NotImplementedError", <<>>)
    ELSE IF IsRaise(makedirs(dirname(file))) THEN makedirs(dirname(file))
    ELSE [files |-> savez(archives, file,
                          [vertices |-> Center(self.vertices).rows,
                           faces |-> self.elements.rows,
                           f_dim |-> self.elements.instance,
                           vertex_dim |-> Center(self.vertices).instance,
                           vector |-> Center(self.vertices).item_names,
                           has_extra_data |-> FALSE]),
          return |-> None]

\* load_tri_mesh(file) with convert=False, load_extra=()
load_tri_mesh(archives, file) ==
    LET data == load(archives, file)
    IN  IF IsRaise(data) THEN data
        ELSE mesh(VertexTensor(data.vertex_dim, "vector", data.vector, data.vertices),
                  [DenseElements(data.f_dim, "int", data.faces) EXCEPT !.spatial = "vertex_list"],
                  None, None, None, PyStr("csc"), None)

\* The meshes to save: two or three coordinates per vertex, triangles or
\* other polygons, with the default and with other dimension names
ArchiveDims == {<<"vertices", "cells">>, <<"points", "faces">>}

ArchivePolygonLists ==
    {<<<<0, 1, 2>>>>, <<<<0, 1, 2>>, <<2, 1, 3>>>>, <<<<3, 1, 0>>, <<0, 2, 3>>, <<1, 2, 3>>>>,
     <<<<0, 1, 3, 2>>>>, <<<<0, 1, 2>>, <<0, 1, 3, 2>>>>}

ArchiveMeshes ==
    {mesh(VertexTensor(dims[1], "vector", xyz(n), GridPoints(n)),
          IF \A i \in 1..Len(polygons) : Len(polygons[i]) = Len(polygons[1])
          THEN DenseElements(dims[2], "int", polygons)
          ELSE SparseElements(dims[2], as_dual(dims[1]), "bool", polygons),
          b, None, None, f, None) :
        dims \in ArchiveDims, n \in 2..3, polygons \in ArchivePolygonLists,
        b \in {None, PyDict(<<>>)}, f \in FaceFormats}

FileNames == {FileName(dir, "mesh", ext) : dir \in {"", "out"}, ext \in {"", ".npz"}}

InitArchive ==
    /\ ret = Pending
    /\ files = NoFiles
    /\ demo = NoDemo
    /\ meshes = NoMeshes
    /\ \E file \in FileNames, m \in ArchiveMeshes :
          call = Call("save_tri_mesh", <<file, m>>)

SaveTriMesh ==
    /\ ret = Pending
    /\ call.fn = "save_tri_mesh"
    /\ LET saved == save_tri_mesh(files, call.args[1], call.args[2])
       IN  /\ ret' = IF IsRaise(saved) THEN saved ELSE saved.return
           /\ files' = IF IsRaise(saved) THEN files ELSE saved.files
    /\ UNCHANGED <<call, meshes, demo>>

\* after save_tri_mesh has returned, the same file name is loaded
LoadTriMesh ==
    /\ call.fn = "save_tri_mesh"
    /\ ret = None
    /\ call' = Call("load_tri_mesh", call.args)
    /\ ret' = load_tri_mesh(files, call.args[1])
    /\ UNCHANGED <<files, meshes, demo>>

NextArchive == SaveTriMesh \/ LoadTriMesh

SpecArchive == InitArchive /\ [][NextArchive]_vars

\* the loaded mesh has the vertices, faces and dimension names of the saved
SameTriMesh(loaded, saved) ==
    /\ IsMesh(loaded)
    /\ Center(loaded.vertices).rows = Center(saved.vertices).rows
    /\ loaded.elements.rows = saved.elements.rows
    /\ loaded.elements.instance = saved.elements.instance
    /\ Center(loaded.vertices).instance = Center(saved.vertices).instance
    /\ Center(loaded.vertices).item_names = Center(saved.vertices).item_names

\* the save and the load of a triangle-mesh round trip have both ended
RoundTripDone ==
    \/ call.fn = "load_tri_mesh"
    \/ call.fn = "save_tri_mesh" /\ IsRaise(ret)

\* C17: save_tri_mesh followed by load_tri_mesh of the same file with no
\* extra data returns a mesh with the same vertex coordinates, the same face
\* index rows in the same order, and the same element dimension name, vertex
\* dimension name and vector axis names as the saved mesh.
C17_SaveLoadRoundTrip ==
    (RoundTripDone /\ call.args[2].elements.cls = "CompactSparseTensor")
        => SameTriMesh(ret, call.args[2])

\* The round trip does succeed for a file name with a directory part and
\* the extension .npz.
RoundTripInDirectory ==
    (/\ RoundTripDone
     /\ call.args[2].elements.cls = "CompactSparseTensor"
     /\ call.args[1].dir # ""
     /\ call.args[1].ext = ".npz")
        => SameTriMesh(ret, call.args[2])

(***************************************************************************)
(* The greedy cell walk.  The normals of the meshes walked on are          *)
(* rational (cells with axis-aligned faces).                               *)
(***************************************************************************)
PyBool(b) == [bool |-> b]

\* getattr(self, name) for a Mesh: a dataclass field gives its value, a
\* property or method is there, and any other name raises AttributeError
Mesh_getattr(self, name) ==
    IF name \in Range(MeshFields) THEN self[name]
    ELSE IF name \in MeshAttributes THEN [attribute |-> name]
    ELSE AttributeError("Mesh", name)

\* where(normals_out, normals, -normals)
OutwardNormals(faces, mean) ==
    IF IsNone(faces)
    THEN Raise("TypeError", <<"'NoneType' object is not subscriptable">>)
    ELSE IF IsRaise(faces) THEN faces
    ELSE SparseMatrix([q \in DOMAIN faces.normal.entries |->
            LET normals_out ==
                    ValLess(tensor(0),
                            Dot(faces.normal.entries[q],
                                VecSub(faces.center.entries[q], mean[q[1] + 1])))
            IN  IF normals_out THEN faces.normal.entries[q]
                ELSE VecScale(tensor(-1), faces.normal.entries[q])])

\* Mesh.face_normals: the normals of _faces turned to point away from the
\* vertex mean of the element
face_normals(self) ==
    IF self.element_rank = PyInt(Mesh_spatial_rank(self))
    THEN OutwardNormals(_faces(self), _vertex_mean(self))
    ELSE Raise("NotImplementedError", <<>>)

\* argmax(distances, dual): the stored index of the largest value, the
\* lowest such index if several are largest
argmax(distances) ==
    CHOOSE nb \in DOMAIN distances :
        \A other \in DOMAIN distances :
            /\ ~ValLess(distances[nb], distances[other])
            /\ distances[other] = distances[nb] => nb <= other

\* distances = closest_normals.vector @ location.vector - offsets
FaceDistances(normals, centers, location, start_cell_idx) ==
    [nb \in StoredIn(normals, start_cell_idx) |->
        ValSub(Dot(normals.entries[<<start_cell_idx, nb>>], location),
               Dot(normals.entries[<<start_cell_idx, nb>>],
                   centers.entries[<<start_cell_idx, nb>>]))]

\* the values that cell_walk_towards returns, from the distances and
\* is_outside
WalkStep(distances, is_outside, cells, start_cell_idx, allow_exit) ==
    LET nb_idx == argmax(distances)
        leaves_mesh == nb_idx >= cells
        next_idx == IF is_outside /\ (~leaves_mesh \/ allow_exit)
                    THEN nb_idx ELSE start_cell_idx
    IN  [next_idx |-> next_idx, leaves_mesh |-> leaves_mesh, is_outside |-> is_outside,
         distances |-> distances, nb_idx |-> nb_idx]

\* Mesh.cell_walk_towards from is_outside on
WalkOutside(distances, is_outside, cells, start_cell_idx, allow_exit) ==
    IF IsRaise(is_outside) THEN is_outside
    ELSE WalkStep(distances, is_outside, cells, start_cell_idx, allow_exit)

\* distances > 0
Positive(distances) == [nb \in DOMAIN distances |-> ValLess(tensor(0), distances[nb])]

\* Mesh.cell_walk_towards from the distances on.  is_outside =
\* any(distances > 0, dual) is a call of Python's any with two arguments.
WalkFrom(distances, cells, start_cell_idx, allow_exit) ==
    WalkOutside(distances, builtin_any(Positive(distances), "dual"), cells, start_cell_idx,
                allow_exit)

\* Mesh.cell_walk_towards
cell_walk_towards(self, location, start_cell_idx, allow_exit) ==
    IF IsRaise(face_normals(self)) THEN face_normals(self)
    ELSE WalkFrom(FaceDistances(face_normals(self), face_centers(self), location,
                                start_cell_idx),
                  cell_count(self), start_cell_idx, allow_exit)

\* find_closest(vectors, query): the index, counted from 0, of the vector
\* nearest to the query
find_closest(vectors, query) ==
    (CHOOSE i \in 1..Len(vectors) :
        \A j \in 1..Len(vectors) :
            LET di == Dot(VecSub(vectors[i], query), VecSub(vectors[i], query))
                dj == Dot(VecSub(vectors[j], query), VecSub(vectors[j], query))
            IN  ~ValLess(dj, di) /\ (dj = di => i <= j)) - 1

\* for i in range(hops): idx, ... = self.cell_walk_towards(location, idx,
\* allow_exit): the values of the last iteration, given those of iteration i
RECURSIVE Walk(_, _, _, _, _, _)
Walk(self, location, step, i, hops, exit_on_last) ==
    IF IsRaise(step) \/ i >= hops - 1 THEN step
    ELSE Walk(self, location,
              cell_walk_towards(self, location, step.next_idx,
                                exit_on_last /\ i + 1 = hops - 1),
              i + 1, hops, exit_on_last)

\* the for loop over range(max_cell_walk) as a whole
WalkLoop(self, location, idx, max_cell_walk, exit_on_last) ==
    IF "int" \notin DOMAIN max_cell_walk
    THEN Raise("TypeError", <<"object cannot be interpreted as an integer">>)
    ELSE IF max_cell_walk.int <= 0
    THEN Raise("UnboundLocalError", <<"local variable referenced before assignment">>)
    ELSE Walk(self, location,
              cell_walk_towards(self, location, idx, exit_on_last /\ max_cell_walk.int = 1),
              0, max_cell_walk.int, exit_on_last)

\* Mesh.lies_inside
Mesh_lies_inside(self, location) ==
    LET _center == Mesh_getattr(self, "_center")
        _max_cell_walk == Mesh_getattr(self, "_max_cell_walk")
    IN  IF IsRaise(_center) THEN _center
        ELSE IF IsRaise(_max_cell_walk) THEN _max_cell_walk
        ELSE LET last == WalkLoop(self, location, find_closest(_center, location),
                                  _max_cell_walk, TRUE)
             IN  IF IsRaise(last) THEN last
                 ELSE PyBool(~(last.leaves_mesh /\ last.is_outside))

\* max(distances, dual): Python's max
MaxDistance(distances) == builtin_max(distances, "dual")

\* Mesh.approximate_signed_distance
Mesh_approximate_signed_distance(self, location) ==
    LET _center == Mesh_getattr(self, "_center")
        _normals == Mesh_getattr(self, "_normals")
        _max_cell_walk == Mesh_getattr(self, "_max_cell_walk")
    IN  IF self.element_rank = PyInt(2) /\ Mesh_spatial_rank(self) = 3
        THEN IF IsRaise(_center) THEN _center
             ELSE IF IsRaise(_normals) THEN _normals
             ELSE LET closest_elem == find_closest(_center, location)
                  IN  [tensor |-> Dot(_normals[closest_elem + 1],
                                      VecSub(location, _center[closest_elem + 1]))]
        ELSE IF IsRaise(_center) THEN _center
        ELSE IF IsNone(_center)
        THEN Raise("NotImplementedError",
                   <<"Mesh.approximate_signed_distance only available when faces are built.">>)
        ELSE IF IsRaise(_max_cell_walk) THEN _max_cell_walk
        ELSE LET last == WalkLoop(self, location, find_closest(_center, location),
                                  _max_cell_walk, FALSE)
             IN  IF IsRaise(last) THEN last
                 ELSE MaxDistance(last.distances)

(***************************************************************************)
(* SpecWalk: one call of cell_walk_towards, lies_inside or                 *)
(* approximate_signed_distance on the mesh of a grid of unit cells, built  *)
(* by mesh_from_numpy from the arrays of build_quadrilaterals, or on a     *)
(* mesh of one triangle in space.                                          *)
(***************************************************************************)
\* the grid of n by n unit cells
UnitGrid(n) ==
    build_single_mesh(BoundsBox(<<tensor(0), tensor(0)>>, <<tensor(n), tensor(n)>>), <<n, n>>,
               "cells", PyStr("csc"))

\* one triangle in space
SurfaceMesh ==
    mesh_from_numpy(GridPoints(3), <<<<0, 1, 3>>>>, PyDict(<<>>), None, None, "cells",
                    PyStr("csc"))

WalkGrids == {1, MaxResolution}

\* the cells at which a walk starts: corners and the middle of the grid
WalkStarts(n) == {0, n - 1, (n * n) \div 2, n * n - 1}

\* locations in and around the grid, off the lines on which two faces are
\* equally far
WalkLocations(n) ==
    {<<Rat(4 * a + 1, 4), Rat(2 * b + 1, 2)>> : a \in {-1, 0, n - 1, n}, b \in {-1, 0, n - 1, n}}

InitWalk ==
    /\ ret = Pending
    /\ files = NoFiles
    /\ demo = NoDemo
    /\ meshes = NoMeshes
    /\ \/ \E n \in WalkGrids : \E location \in WalkLocations(n), start \in WalkStarts(n),
             allow_exit \in BOOLEAN :
             call = Call("cell_walk_towards", <<n, location, start, allow_exit>>)
       \/ \E n \in WalkGrids : \E location \in WalkLocations(n),
             fn \in {"lies_inside", "approximate_signed_distance"} :
             call = Call(fn, <<n, location>>)
       \/ \E location \in {<<tensor(0), tensor(0), tensor(z)>> : z \in {-1, 1}} :
             call = Call("approximate_signed_distance", <<0, location>>)

CellWalkTowards ==
    /\ ret = Pending
    /\ call.fn = "cell_walk_towards"
    /\ ret' = cell_walk_towards(UnitGrid(call.args[1]), call.args[2], call.args[3],
                                call.args[4])
    /\ UNCHANGED <<call, files, meshes, demo>>

MeshLiesInside ==
    /\ ret = Pending
    /\ call.fn = "lies_inside"
    /\ ret' = Mesh_lies_inside(UnitGrid(call.args[1]), call.args[2])
    /\ UNCHANGED <<call, files, meshes, demo>>

MeshApproximateSignedDistance ==
    /\ ret = Pending
    /\ call.fn = "approximate_signed_distance"
    /\ ret' = Mesh_approximate_signed_distance(
                  IF call.args[1] = 0 THEN SurfaceMesh ELSE UnitGrid(call.args[1]),
                  call.args[2])
    /\ UNCHANGED <<call, files, meshes, demo>>

NextWalk == CellWalkTowards \/ MeshLiesInside \/ MeshApproximateSignedDistance

SpecWalk == InitWalk /\ [][NextWalk]_vars

\* the signed offsets of a location from the four faces of the unit cell c
\* of the n by n grid: left, right, lower, upper
CellOffsets(n, c, location) ==
    LET i == c \div n
        j == c % n
    IN  <<ValSub(tensor(i), location[1]), ValSub(location[1], tensor(i + 1)),
          ValSub(tensor(j), location[2]), ValSub(location[2], tensor(j + 1))>>

\* the largest of the four offsets
MaxOffset(n, c, location) ==
    CHOOSE d \in Range(CellOffsets(n, c, location)) :
        \A other \in Range(CellOffsets(n, c, location)) : ~ValLess(d, other)

InsideCell(n, c, location) == ~ValLess(tensor(0), MaxOffset(n, c, location))

InsideGrid(n, location) == \E c \in 0..(n * n - 1) : InsideCell(n, c, location)

\* C18: lies_inside starts at the element whose center is nearest to the
\* location, performs at most max_cell_walk hops of cell_walk_towards,
\* permits leaving the mesh only on the last hop, and returns true unless
\* the walk both left the mesh and found the location outside; it returns
\* true for a location inside a cell and false for a location beyond a
\* boundary face of the cell the walk ends in.
C18_LiesInside ==
    (call.fn = "lies_inside" /\ Returned) =>
        /\ ~IsRaise(ret)
        /\ ret = PyBool(InsideGrid(call.args[1], call.args[2]))

\* C19: for a solid mesh, approximate_signed_distance walks from the nearest
\* element center and returns the maximum per-face signed offset of the
\* location with respect to the cell at which the walk ends.
C19_SignedDistanceAtFinalCell ==
    (call.fn = "approximate_signed_distance" /\ Returned /\ call.args[1] > 0) =>
        /\ ~IsRaise(ret)
        /\ \A c \in 0..(call.args[1] * call.args[1] - 1) :
               InsideCell(call.args[1], c, call.args[2]) =>
                   ret = [tensor |-> MaxOffset(call.args[1], c, call.args[2])]

\* What one hop of the walk does: the distances are computed and the call
\* of any raises, for every mesh, location and start.
CellWalkRaises ==
    (call.fn = "cell_walk_towards" /\ Returned) =>
        /\ IsRaise(ret)
        /\ ret.raise = "TypeError"

(***************************************************************************)
(* Boundary padding.  A value holds one entry per cell along the instance  *)
(* dimension of the elements or along its dual; the padded value lies on   *)
(* the dual (neighbor) dimension.  A widths dict maps a boundary name to   *)
(* its slice of the neighbor dimension.                                    *)
(***************************************************************************)
\* mode.sparse_pad_values(value, connectivity[b_slice], name): one value per
\* face of the slice; a constant extrapolation gives its constant, the
\* boundary extrapolation the value of the cell that the face belongs to
sparse_pad_values(mode, value, connectivity, b_slice) ==
    [f \in 1..(b_slice.stop - b_slice.start) |->
        IF IsConstant(mode) THEN mode.value
        ELSE value.rows[(CHOOSE p \in DOMAIN connectivity.entries :
                            p[2] = b_slice.start + f - 1)[1] + 1]]

\* np.argsort(keys): the positions of the keys in ascending order, equal
\* keys in the order of their positions
argsort(keys) ==
    [r \in 1..Len(keys) |->
        CHOOSE i \in 1..Len(keys) :
            Cardinality({j \in 1..Len(keys) :
                            keys[j] < keys[i] \/ (keys[j] = keys[i] /\ j < i)}) = r - 1]

\* concat(pieces, dim)
RECURSIVE concat(_)
concat(pieces) == IF pieces = <<>> THEN <<>> ELSE Head(pieces) \o concat(Tail(pieces))

\* Mesh.pad_boundary from the loop over widths.items() on: `items` are the
\* entries of widths with a slice of nonzero width, in iteration order
PadPieces(value, items, connectivity, mode) ==
    LET slices == <<[start |-> 0, stop |-> Len(value.rows)]>>
                      \o [i \in 1..Len(items) |-> items[i].value]
        values == <<value.rows>>
                      \o [i \in 1..Len(items) |->
                             sparse_pad_values(mode, value, connectivity, items[i].value)]
        perm == argsort([i \in 1..Len(slices) |-> slices[i].start])
    IN  [value EXCEPT !.rows = concat([i \in 1..Len(perm) |-> values[perm[i]]])]

\* Mesh.pad_boundary once value is renamed and widths is chosen
PadWidths(self, value, widths, mode) ==
    IF IsRaise(widths) THEN widths
    ELSE IF widths.dict = <<>> THEN Raise("StopIteration", <<>>)
    ELSE IF IsRaise(element_connectivity(self)) THEN element_connectivity(self)
    ELSE PadPieces(value,
                   SelectSeq(widths.dict, LAMBDA item : item.value.stop - item.value.start > 0),
                   element_connectivity(self), mode)

\* Mesh.pad_boundary(value, widths, mode)
pad_boundary(self, value, widths, mode) ==
    IF value.dim = as_dual(self.elements.instance)
    THEN Raise("NotImplementedError", <<>>)
    ELSE PadWidths(self, [value EXCEPT !.dim = as_dual(self.elements.instance)],
                   IF IsNone(widths) THEN boundary_faces(self) ELSE widths, mode)

(***************************************************************************)
(* SpecBoundary: a program that builds a mesh and pads a value given per   *)
(* cell at the boundaries of the mesh.                                     *)
(***************************************************************************)
\* the grid of nx by ny unit cells
CellGrid(nx, ny) ==
    build_single_mesh(BoundsBox(<<tensor(0), tensor(0)>>, <<tensor(nx), tensor(ny)>>), <<nx, ny>>,
               "cells", PyStr("csc"))

\* grids, whose boundaries are x-, x+, y-, y+, and two polygons without
\* boundary edges
BoundaryMeshes ==
    {CellGrid(nx, ny) : nx \in {1, MaxResolution}, ny \in 1..MaxResolution}
    \cup {mesh_from_numpy(EditPoints, <<<<0, 1, 4, 3>>, <<1, 2, 5, 4>>>>, b, None, None,
                          "cells", PyStr("csc")) : b \in {None, PyDict(<<>>)}}

\* the slices of the boundary faces in iteration order and in reverse, with
\* and without a boundary of zero width; no slices at all
WidthDictsOf(self) ==
    IF IsNone(self.boundaries) \/ self.boundaries.dict = <<>> THEN {None}
    ELSE LET slices == BoundarySlices(self.boundaries.dict, cell_count(self))
             narrowed == [i \in 1..Len(slices) |->
                            IF i = 2 THEN Item(slices[i].key, [start |-> slices[i].value.start,
                                                             stop |-> slices[i].value.start])
                            ELSE slices[i]]
         IN  {None, PyDict(Reversed(slices)), PyDict(Reversed(narrowed)), PyDict(narrowed),
              PyDict(<<>>)}

\* one value per cell, on the instance dimension or on its dual
CellValues(self) ==
    {VectorTensor(dim, [e \in 1..cell_count(self) |-> tensor(e)]) : dim \in {"cells", "~cells"}}

InitBoundary ==
    /\ ret = Pending
    /\ files = NoFiles
    /\ demo = NoDemo
    /\ \E self \in BoundaryMeshes :
          \E value \in CellValues(self), widths \in WidthDictsOf(self),
             mode \in {ZERO, ONE, BOUNDARY} :
             /\ meshes = <<self>>
             /\ call = Call("pad_boundary", <<value, widths, mode>>)

PadBoundary ==
    /\ ret = Pending
    /\ call.fn = "pad_boundary"
    /\ ret' = pad_boundary(meshes[1], call.args[1], call.args[2], call.args[3])
    /\ UNCHANGED <<call, files, meshes, demo>>

NextBoundary == PadBoundary

SpecBoundary == InitBoundary /\ [][NextBoundary]_vars

\* the widths that a call of pad_boundary uses
WidthsUsed == IF IsNone(call.args[2]) THEN PyDict(BoundarySlices(meshes[1].boundaries.dict,
                                                                cell_count(meshes[1])))
              ELSE call.args[2]

\* the pad value of neighbor index q under the mode of the call: the
\* constant, or the value of the cell that boundary face q belongs to
PadValueAt(q) ==
    IF IsConstant(call.args[3]) THEN call.args[3].value
    ELSE LET rows == meshes[1].elements.rows
             edge == BoundaryRows(meshes[1].boundaries.dict)[q - Len(rows) + 1]
         IN  call.args[1].rows[CHOOSE e \in 1..Len(rows) : Range(edge) \subseteq Range(rows[e])]

\* `padded` is the value followed by one block per slice of nonzero width,
\* the blocks in the order of their start offsets
PaddedInOrder(padded, value, items) ==
    LET wide == {i \in 1..Len(items) : items[i].value.stop > items[i].value.start}
        width(i) == items[i].value.stop - items[i].value.start
        before(i) == {j \in wide : items[j].value.start < items[i].value.start}
        RECURSIVE Total(_)
        Total(S) == IF S = {} THEN 0
                    ELSE LET j == CHOOSE k \in S : TRUE IN width(j) + Total(S \ {j})
    IN  /\ padded.dim = "~cells"
        /\ Len(padded.rows) = Len(value.rows) + Total(wide)
        /\ SubSeq(padded.rows, 1, Len(value.rows)) = value.rows
        /\ \A i \in wide : \A f \in 0..(width(i) - 1) :
               padded.rows[Len(value.rows) + Total(before(i)) + f + 1]
                   = PadValueAt(items[i].value.start + f)

\* C22: pad_boundary(value, widths, mode), for a value given on the element
\* instance dimension or already on the dual dimension of the faces, returns
\* the original values followed by one pad block per boundary slice of
\* nonzero width, the blocks ordered by the start offset of their slice
\* whatever the iteration order of widths; zero widths contribute no block.
C22_PadBoundary ==
    (call.fn = "pad_boundary" /\ Returned) =>
        /\ ~IsRaise(ret)
        /\ PaddedInOrder(ret, call.args[1], WidthsUsed.dict)

\* What pad_boundary does guarantee: for a value on the instance dimension
\* and widths that name at least one boundary, the blocks follow the value
\* in the order of their start offsets.
PadBoundaryOfCells ==
    (call.fn = "pad_boundary" /\ Returned /\ call.args[1].dim = "cells"
        /\ ~IsNone(meshes[1].boundaries) /\ WidthsUsed.dict # <<>>) =>
        /\ ~IsRaise(ret)
        /\ PaddedInOrder(ret, call.args[1], WidthsUsed.dict)

\* a call in which the iteration order of widths differs from the order of
\* the start offsets and one boundary has zero width
PadBoundaryReordered ==
    /\ call.fn = "pad_boundary" /\ Returned /\ ~IsRaise(ret)
    /\ ~IsNone(call.args[2])
    /\ \E i, j \in 1..Len(call.args[2].dict) :
          /\ i < j
          /\ call.args[2].dict[i].value.start > call.args[2].dict[j].value.start
          /\ call.args[2].dict[j].value.stop > call.args[2].dict[j].value.start
    /\ \E i \in 1..Len(call.args[2].dict) :
          call.args[2].dict[i].value.stop = call.args[2].dict[i].value.start
    /\ call.args[3] = BOUNDARY
    /\ Len(ret.rows) > Len(call.args[1].rows) + 1

(***************************************************************************)
(* The network training demo.  The script is a sequence of statements;     *)
(* `demo.pc` is the statement it is at, `demo.steps` and `demo.scene` are  *)
(* the step count and the scene of the viewer, `demo.done` counts how      *)
(* often each statement of the loop body has run, `demo.scalars` are the   *)
(* names logged last, `demo.info` the messages of the viewer,               *)
(* `demo.actions` the outcomes of the actions that the user has run from   *)
(* the viewer.  A checkpoint in `files` holds its path and the number of   *)
(* optimizer steps that the saved parameters have seen.                    *)
(***************************************************************************)
TrainingSteps == 100        \* for step in viewer.range(100)

MaxActions == 1             \* the user runs the action save_model at most MaxActions times

\* the statements of the loop body in program order
LoopBody ==
    <<"data", "zero_grad", "native_call", "divergence", "loss", "log_scalars", "backward",
      "step">>

\* view(...).scene: no scene, or the scene of the run with its directory
DemoScenes == {None, [cls |-> "Scene", path |-> "scene_000000"]}

\* the viewer and the script before the loop
DemoStart(scene, steps, pc) ==
    [pc |-> pc, steps |-> steps, scene |-> scene,
     done |-> [stmt \in Range(LoopBody) |-> steps], scalars |-> <<>>, info |-> <<>>,
     actions |-> <<>>]

\* the statement `stmt` of the loop body has run; the script is at `next`
Executed(stmt, next) == [demo EXCEPT !.done[stmt] = @ + 1, !.pc = next]

\* f"net_{viewer.steps}.pth"
CheckpointName(steps) == [stem |-> <<"net_", steps>>, ext |-> "pth"]

\* Scene.subpath(name)
subpath(scene, name) == [dir |-> scene.path, name |-> name]

\* save_model(): the files after the call, the message given to the viewer
\* and the return value, or the exception raised
save_model(viewer, saved) ==
    IF IsNone(viewer.scene)
    THEN AttributeError("NoneType", "subpath")
    ELSE LET path == subpath(viewer.scene, CheckpointName(viewer.steps))
         IN  [files |-> Append(saved, [path |-> path, state_dict |-> viewer.done["step"]]),
              info |-> <<"Model saved to ", path>>,
              return |-> None]

(***************************************************************************)
(* SpecDemo: one run of the script.                                        *)
(***************************************************************************)
InitDemo ==
    /\ call = Call("network_training_pytorch", <<>>)
    /\ ret = Pending
    /\ files = NoFiles
    /\ meshes = NoMeshes
    /\ \E scene \in DemoScenes : demo = DemoStart(scene, 0, "range")

\* for step in viewer.range(100): the viewer counts a step when the body
\* has ended; before it yields the next step, the first included, it waits
\* at "range" for the user to let it progress; after TrainingSteps steps
\* the loop ends
ViewerRange ==
    /\ demo.pc \in {"range", "resume"}
    /\ demo' = IF demo.pc = "resume"
               THEN [demo EXCEPT !.steps = @ + 1, !.pc = "range"]
               ELSE [demo EXCEPT !.pc = IF demo.steps < TrainingSteps
                                        THEN "data" ELSE "save_model"]
    /\ UNCHANGED <<call, ret, files, meshes>>

\* @vis.action save_model, run by the user while the viewer waits before a
\* step; an exception of the action is reported by the viewer and the
\* script goes on
ViewerAction ==
    /\ demo.pc = "range"
    /\ demo.steps < TrainingSteps
    /\ Len(demo.actions) < MaxActions
    /\ LET saved == save_model(demo, files)
       IN  IF IsRaise(saved)
           THEN /\ demo' = [demo EXCEPT !.actions = Append(@, saved)]
                /\ UNCHANGED files
           ELSE /\ files' = saved.files
                /\ demo' = [demo EXCEPT !.actions = Append(@, saved.return),
                                        !.info = Append(@, saved.info)]
    /\ UNCHANGED <<call, ret, meshes>>

Data ==
    /\ demo.pc = "data"
    /\ demo' = Executed("data", "zero_grad")
    /\ UNCHANGED <<call, ret, files, meshes>>

ZeroGrad ==
    /\ demo.pc = "zero_grad"
    /\ demo' = Executed("zero_grad", "native_call")
    /\ UNCHANGED <<call, ret, files, meshes>>

NativeCall ==
    /\ demo.pc = "native_call"
    /\ demo' = Executed("native_call", "divergence")
    /\ UNCHANGED <<call, ret, files, meshes>>

Divergence ==
    /\ demo.pc = "divergence"
    /\ demo' = Executed("divergence", "loss")
    /\ UNCHANGED <<call, ret, files, meshes>>

Loss ==
    /\ demo.pc = "loss"
    /\ demo' = Executed("loss", "log_scalars")
    /\ UNCHANGED <<call, ret, files, meshes>>

LogScalars ==
    /\ demo.pc = "log_scalars"
    /\ demo' = [Executed("log_scalars", "backward") EXCEPT
                   !.scalars = <<"loss", "div", "distance">>]
    /\ UNCHANGED <<call, ret, files, meshes>>

Backward ==
    /\ demo.pc = "backward"
    /\ demo' = Executed("backward", "step")
    /\ UNCHANGED <<call, ret, files, meshes>>

OptimizerStep ==
    /\ demo.pc = "step"
    /\ demo' = Executed("step", "resume")
    /\ UNCHANGED <<call, ret, files, meshes>>

\* save_model() after the loop; an exception ends the script
SaveModel ==
    /\ demo.pc = "save_model"
    /\ LET saved == save_model(demo, files)
       IN  IF IsRaise(saved)
           THEN /\ ret' = saved
                /\ demo' = [demo EXCEPT !.pc = "raised"]
                /\ UNCHANGED files
           ELSE /\ ret' = saved.return
                /\ files' = saved.files
                /\ demo' = [demo EXCEPT !.pc = "done", !.info = Append(@, saved.info)]
    /\ UNCHANGED <<call, meshes>>

NextDemo ==
    \/ ViewerRange \/ ViewerAction \/ Data \/ ZeroGrad \/ NativeCall \/ Divergence \/ Loss \/ LogScalars
    \/ Backward \/ OptimizerStep \/ SaveModel

SpecDemo == InitDemo /\ [][NextDemo]_vars

\* the position of a statement in the loop body; the statements outside the
\* body come before it (loop head) or after it
BodyIndex(pc) ==
    IF pc \in Range(LoopBody) THEN CHOOSE i \in 1..Len(LoopBody) : LoopBody[i] = pc
    ELSE IF pc = "range" THEN 1
    ELSE Len(LoopBody) + 1

\* within an iteration the statements run once each in program order: the
\* statements before the current one have run once more than the viewer
\* has counted steps, the others as often as it has
InProgramOrder ==
    \A i \in 1..Len(LoopBody) :
        demo.done[LoopBody[i]] =
            IF demo.pc \in Range(LoopBody) \cup {"resume"} /\ i < BodyIndex(demo.pc)
            THEN demo.steps + 1 ELSE demo.steps

\* the checkpoints of the step count at which the loop ends
FinalCheckpoints ==
    {i \in DOMAIN files : files[i].path.name = CheckpointName(TrainingSteps)}

\* the final checkpoint is written once, after the loop, with the
\* parameters of all optimizer steps
FinalCheckpointSaved ==
    /\ demo.pc # "done" => FinalCheckpoints = {}
    /\ demo.pc = "done" =>
          /\ FinalCheckpoints = {Len(files)}
          /\ files[Len(files)].state_dict = TrainingSteps

\* C23: the demo runs 100 iterations and in each one performs, in order,
\* zero gradients, forward pass, divergence, loss, logging of exactly the
\* three scalars loss, div, distance, back-propagation and exactly one
\* optimizer step; once the loop has ended the final checkpoint is saved
\* exactly once, unconditionally.
C23_TrainingLoop ==
    demo.pc # "none" =>
        /\ InProgramOrder
        /\ demo.done["log_scalars"] > 0 => demo.scalars = <<"loss", "div", "distance">>
        /\ demo.pc \in {"save_model", "done", "raised"} => demo.steps = TrainingSteps
        /\ demo.pc # "raised"
        /\ FinalCheckpointSaved

\* What the script does guarantee: the loop runs 100 iterations with the
\* statements in order, and save_model is called only after it.
TrainingLoopOrder ==
    demo.pc # "none" =>
        /\ InProgramOrder
        /\ demo.done["log_scalars"] > 0 => demo.scalars = <<"loss", "div", "distance">>
        /\ demo.pc \in {"save_model", "done", "raised"} => demo.steps = TrainingSteps
        /\ FinalCheckpointSaved

\* a checkpoint saved by the user before step 3 lies beside the final one
SavedWhileWaiting ==
    /\ demo.pc = "done"
    /\ Len(files) = 2
    /\ files[1].path.name = CheckpointName(3)
    /\ files[1].state_dict = 3
    /\ Len(demo.actions) = 1

(***************************************************************************)
(* SpecSave: the user triggers the viewer action save_model while the      *)
(* viewer is paused after some steps.                                      *)
(***************************************************************************)
InitSave ==
    /\ call = Call("save_model", <<>>)
    /\ ret = Pending
    /\ files = NoFiles
    /\ meshes = NoMeshes
    /\ \E scene \in DemoScenes, steps \in 0..TrainingSteps :
          demo = DemoStart(scene, steps, "action")

\* @vis.action save_model
SaveModelAction ==
    /\ demo.pc = "action"
    /\ LET saved == save_model(demo, files)
       IN  IF IsRaise(saved)
           THEN /\ ret' = saved
                /\ demo' = [demo EXCEPT !.pc = "paused"]
                /\ UNCHANGED files
           ELSE /\ ret' = saved.return
                /\ files' = saved.files
                /\ demo' = [demo EXCEPT !.pc = "paused", !.info = Append(@, saved.info)]
    /\ UNCHANGED <<call, meshes>>

NextSave == SaveModelAction

SpecSave == InitSave /\ [][NextSave]_vars

\* the path of the checkpoint of the current step: in the directory of the
\* scene, or in the working directory
CheckpointPath ==
    [dir |-> IF IsNone(demo.scene) THEN "" ELSE demo.scene.path,
     name |-> CheckpointName(demo.steps)]

\* C24: save_model writes the network parameters to net_<step>.pth, <step>
\* the current step count of the viewer, inside the output directory of the
\* scene when a scene exists and in the working directory when none exists;
\* in both cases it completes and reports the path.
C24_SaveModel ==
    (call.fn = "save_model" /\ Returned) =>
        /\ ~IsRaise(ret)
        /\ Len(files) = 1
        /\ files[1].path = CheckpointPath
        /\ demo.info = <<<<"Model saved to ", CheckpointPath>>>>

\* What save_model does guarantee: with a scene, the checkpoint of the
\* current step is written into its directory and the path is reported.
SaveModelInScene ==
    (call.fn = "save_model" /\ Returned /\ ~IsNone(demo.scene)) =>
        /\ ~IsRaise(ret)
        /\ Len(files) = 1
        /\ files[1].path = CheckpointPath
        /\ demo.info = <<<<"Model saved to ", CheckpointPath>>>>

(***************************************************************************)
(* SpecBuild: calls of build_mesh that name the obstacles and the meshing  *)
(* method.                                                                 *)
(***************************************************************************)
\* build_mesh(bounds, resolution, obstacles, method, cell_dim, face_format)
\* without obstacle geometries: the function ends without a return
\* statement when method is not 'quad'
build_mesh_method(bounds, resolution, obstacles, method, cell_dim, face_format) ==
    IF ~(\/ IsNone(obstacles)
          \/ "dict" \in DOMAIN obstacles
          \/ ("cls" \in DOMAIN obstacles /\ IsGeometry(obstacles)))
    THEN Raise("AssertionError", <<"obstacles needs to be a Geometry or dict">>)
    ELSE IF method = PyStr("quad")
    THEN build_mesh(bounds, resolution, cell_dim, face_format)
    ELSE None

MeshingMethods == {PyStr("quad"), PyStr("tri"), PyStr("QUAD"), None}

\* no obstacles, as None and as an empty dict, and a value that is neither
\* a Geometry nor a dict
ObstacleArguments == {None, PyDict(<<>>), PyStr("wall")}

InitBuild ==
    /\ ret = Pending
    /\ files = NoFiles
    /\ demo = NoDemo
    /\ meshes = NoMeshes
    /\ \E bounds \in GridBounds, nx \in {1, MaxResolution}, ny \in 1..MaxResolution,
          obstacles \in ObstacleArguments, method \in MeshingMethods :
          call = Call("build_mesh", <<bounds, <<nx, ny>>, PyStr("csc"), obstacles, method>>)

BuildMeshMethod ==
    /\ ret = Pending
    /\ call.fn = "build_mesh"
    /\ Len(call.args) = 5
    /\ ret' = build_mesh_method(call.args[1], call.args[2], call.args[4], call.args[5],
                                "cells", call.args[3])
    /\ UNCHANGED <<call, files, meshes, demo>>

NextBuild == BuildMeshMethod

SpecBuild == InitBuild /\ [][NextBuild]_vars

\* C25: build_mesh called with any method other than 'quad' fails with
\* InvalidInput and returns no value; it never returns normally without a
\* Mesh.
C25_OnlyQuad ==
    (call.fn = "build_mesh" /\ Len(call.args) = 5 /\ Returned) =>
        /\ call.args[5] # PyStr("quad") => IsInvalidInput(ret)
        /\ ~IsRaise(ret) => IsMesh(ret)

\* What build_mesh does: with method 'quad' it raises TypeError at its call
\* of min; with any other method and acceptable obstacles it returns None.
BuildMeshByMethod ==
    (call.fn = "build_mesh" /\ Len(call.args) = 5 /\ Returned
        /\ call.args[4] # PyStr("wall")) =>
        IF call.args[5] = PyStr("quad")
        THEN IsRaise(ret) /\ ret.raise = "TypeError"
        ELSE IsNone(ret)

(***************************************************************************)
(* SpecPeriodic: a program that builds a 2D mesh with named boundaries,    *)
(* some axes periodic, and reads the slices of its boundary faces or the   *)
(* connectivity of its cells.                                              *)
(***************************************************************************)
\* Mesh.interior_faces / Mesh.all_boundary_faces: slices of the neighbor
\* dimension
interior_faces(self) == [start |-> 0, stop |-> PyInt(cell_count(self))]

all_boundary_faces(self) == [start |-> cell_count(self), stop |-> None]

\* the vertices of the grid of nx by ny unit cells
UnitVertices(nx, ny) ==
    [v \in 1..((nx + 1) * (ny + 1)) |->
        <<tensor((v - 1) \div (ny + 1)), tensor((v - 1) % (ny + 1))>>]

\* the cells and the boundaries x-, x+, y-, y+ of that grid
UnitQuadrilaterals(nx, ny) ==
    build_quadrilaterals(UnitVertices(nx, ny), <<nx, ny>>,
                         BoundsBox(<<tensor(0), tensor(0)>>, <<tensor(nx), tensor(ny)>>))

\* a strip one cell wide: a quadrilateral below two triangles; its upper
\* boundary is named y+ or xt
StripPolygons == <<<<0, 1, 4, 3>>, <<3, 4, 6>>, <<4, 7, 6>>>>

StripBoundaries(top) ==
    PyDict(<<Item("x-", <<<<0, 3>>, <<3, 6>>>>), Item("x+", <<<<1, 4>>, <<4, 7>>>>),
             Item("y-", <<<<0, 1>>>>), Item(top, <<<<6, 7>>>>)>>)

\* points, polygons and boundaries of the meshes
\* the boundaries with the group y+ under another name
TopNamed(boundaries, top) ==
    PyDict([i \in 1..Len(boundaries.dict) |->
               IF boundaries.dict[i].key = "y+" THEN Item(top, boundaries.dict[i].value)
               ELSE boundaries.dict[i]])

GridInputs(nx, ny) ==
    {<<UnitVertices(nx, ny), UnitQuadrilaterals(nx, ny).polygons, boundaries>> :
        boundaries \in {UnitQuadrilaterals(nx, ny).boundaries,
                        PyDict(Reversed(UnitQuadrilaterals(nx, ny).boundaries.dict)),
                        TopNamed(UnitQuadrilaterals(nx, ny).boundaries, "xt")}}

PeriodicInputs ==
    UNION {GridInputs(nx, ny) : nx \in 1..MaxResolution, ny \in 1..MaxResolution}
    \cup {<<SubSeq(FacePoints, 1, 8), StripPolygons, StripBoundaries(top)>> :
             top \in {"y+", "xt"}}

PeriodicAxes == {None} \cup {[split |-> axes] : axes \in {<<"x">>, <<"y">>, <<"x", "y">>}}

InitPeriodic ==
    /\ ret = Pending
    /\ files = NoFiles
    /\ demo = NoDemo
    /\ \E input \in PeriodicInputs, periodic \in PeriodicAxes,
          fn \in {"boundary_faces", "cell_connectivity"} :
          /\ call = Call(fn, <<input[1], input[2], input[3], periodic>>)
          /\ meshes = <<mesh_from_numpy(input[1], input[2], input[3], None, periodic,
                                        "cells", PyStr("csc"))>>
          /\ IsMesh(meshes[1])

BoundaryFaces ==
    /\ ret = Pending
    /\ call.fn = "boundary_faces"
    /\ ret' = boundary_faces(meshes[1])
    /\ UNCHANGED <<call, files, meshes, demo>>

CellConnectivity ==
    /\ ret = Pending
    /\ call.fn = "cell_connectivity"
    /\ ret' = cell_connectivity(meshes[1])
    /\ UNCHANGED <<call, files, meshes, demo>>

NextPeriodic == BoundaryFaces \/ CellConnectivity

SpecPeriodic == InitPeriodic /\ [][NextPeriodic]_vars

\* the boundary groups of a mesh other than '<axis>-' and '<axis>+' of its
\* periodic axes, in iteration order
NonPeriodicGroups(self) ==
    SelectSeq(self.boundaries.dict,
              LAMBDA item : \A i \in 1..Len(self.periodic.list) :
                                item.key \notin {self.periodic.list[i] \o "-",
                                                 self.periodic.list[i] \o "+"})

\* `slices` gives the groups contiguous ranges from cell_count on, in their
\* order, each as long as its group has edges; the neighbors stored in the
\* connectivity are the cells and the faces of those ranges
SlicesCover(self, slices, groups) ==
    /\ Len(slices) = Len(groups)
    /\ \A i \in 1..Len(groups) :
          /\ slices[i].key = groups[i].key
          /\ slices[i].value.start
                 = IF i = 1 THEN cell_count(self) ELSE slices[i - 1].value.stop
          /\ slices[i].value.stop - slices[i].value.start = Len(groups[i].value)
    /\ interior_faces(self) = [start |-> 0, stop |-> PyInt(cell_count(self))]
    /\ all_boundary_faces(self).start = interior_faces(self).stop.int
    /\ \A q \in DOMAIN element_connectivity(self).entries :
          \/ q[2] \in 0..(cell_count(self) - 1)
          \/ \E i \in 1..Len(slices) :
                q[2] \in slices[i].value.start..(slices[i].value.stop - 1)

\* C26: the ranges recorded in boundary_slices for the non-periodic boundary
\* groups are contiguous, pairwise disjoint, assigned in the iteration order
\* of the boundaries, each as long as its group has edges, and together
\* cover [cell_count, end) of the neighbor dimension; the groups '<axis>-'
\* and '<axis>+' of a periodic axis get no range, and interior faces occupy
\* [0, cell_count).
C26_BoundarySlices ==
    (call.fn = "boundary_faces" /\ Returned) =>
        /\ ~IsRaise(ret)
        /\ SlicesCover(meshes[1], ret.dict, NonPeriodicGroups(meshes[1]))

\* a boundary group whose name without its last character is a periodic
\* axis, but which is neither '<axis>-' nor '<axis>+'
NamedLikePeriodic(self) ==
    \E i \in 1..Len(NonPeriodicGroups(self)) :
        SubSeq(NonPeriodicGroups(self)[i].key, 1, Len(NonPeriodicGroups(self)[i].key) - 1)
            \in Range(self.periodic.list)

\* the faces were built and a group that is not periodic has no range
GroupWithoutRange ==
    /\ call.fn = "boundary_faces" /\ Returned /\ ~IsRaise(ret)
    /\ NamedLikePeriodic(meshes[1])
    /\ Len(ret.dict) < Len(NonPeriodicGroups(meshes[1]))

\* What build_faces_2d does guarantee: when it returns, the ranges are as
\* claimed unless another group is named like the boundaries of a periodic
\* axis; without periodic axes it returns.
BoundarySlicesOfOtherNames ==
    (call.fn = "boundary_faces" /\ Returned) =>
        /\ meshes[1].periodic.list = <<>> => ~IsRaise(ret)
        /\ (~IsRaise(ret) /\ ~NamedLikePeriodic(meshes[1])) =>
               SlicesCover(meshes[1], ret.dict, NonPeriodicGroups(meshes[1]))

\* C30: the interior element connectivity is symmetric and has no
\* self-connection: a is connected to b exactly when b is connected to a,
\* and no element to itself, also when periodic axes merge the vertex ids of
\* the '<axis>+' boundary into those of the '<axis>-' boundary.
C30_SymmetricConnectivity ==
    (call.fn = "cell_connectivity" /\ Returned) =>
        /\ ~IsRaise(ret)
        /\ \A q \in DOMAIN ret.entries :
              q[1] # q[2] /\ <<q[2], q[1]>> \in DOMAIN ret.entries

\* What build_faces_2d does guarantee: with at most one periodic axis no
\* element is connected to itself, and without periodic axes it returns a
\* symmetric connectivity.
SymmetricWithoutPeriodic ==
    (call.fn = "cell_connectivity" /\ Returned) =>
        /\ meshes[1].periodic.list = <<>> => ~IsRaise(ret)
        /\ ~IsRaise(ret) =>
               \A q \in DOMAIN ret.entries :
                   /\ Len(meshes[1].periodic.list) <= 1 => q[1] # q[2]
                   /\ meshes[1].periodic.list = <<>> => <<q[2], q[1]>> \in DOMAIN ret.entries

\* an element that is its own neighbor
SelfConnection ==
    /\ call.fn = "cell_connectivity" /\ Returned /\ ~IsRaise(ret)
    /\ \E q \in DOMAIN ret.entries : q[1] = q[2]

\* a connectivity in which one element counts another as its neighbor and
\* that one does not
OneWayConnection ==
    /\ call.fn = "cell_connectivity" /\ Returned /\ ~IsRaise(ret)
    /\ \E q \in DOMAIN ret.entries : <<q[2], q[1]>> \notin DOMAIN ret.entries

\* the faces of a mesh with a periodic axis cannot be built
PeriodicBuildFails ==
    /\ call.fn = "cell_connectivity" /\ Returned /\ IsRaise(ret)
    /\ meshes[1].periodic.list # <<>>

(***************************************************************************)
(* SpecSweeps: the vertex pair that build_faces_2d finds for every face,   *)
(* for polygons listed from every vertex and in both directions, at even   *)
(* and odd positions of the entry order.                                   *)
(***************************************************************************)
SweepBoundaries ==
    {<<>>, <<Item("wall", <<<<0, 1>>, <<2, 1>>>>), Item("top", <<<<7, 6>>>>)>>}

InitSweeps ==
    /\ ret = Pending
    /\ files = NoFiles
    /\ demo = NoDemo
    /\ meshes = NoMeshes
    /\ \E polygons \in FacePolygonLists, items \in SweepBoundaries :
          /\ MeetInEdges(polygons)
          /\ call = Call("v_indices", <<polygons, polygons \o BoundaryRows(items)>>)

\* build_faces_2d up to v_indices = wrap(v_indices, 'vert:i=(start,end),edge:i')
VertexIndices ==
    /\ ret = Pending
    /\ call.fn = "v_indices"
    /\ ret' = FaceVertexIndices(call.args[1], call.args[2],
                                ConnectedPairs(call.args[1], call.args[2]))
    /\ UNCHANGED <<call, files, meshes, demo>>

NextSweeps == VertexIndices

SpecSweeps == InitSweeps /\ [][NextSweeps]_vars

\* row j of all_rows, another element or a boundary edge, shares an edge
\* of polygon e
SharesEdge(rows, all_rows, e, j) ==
    /\ Len(rows[e]) >= 3
    /\ (j <= Len(rows) => j # e)
    /\ Cardinality(Range(rows[e]) \cap Range(all_rows[j])) = 2
    /\ \E a, b \in Range(rows[e]) \cap Range(all_rows[j]) :
          a # b /\ Adjacent(rows[e], a, b)

\* C27: for every polygon with at least 3 vertices and every neighbour
\* (element or boundary edge) sharing one of its edges, the four parity
\* sweeps followed by the first-ascending-pair selection return exactly the
\* two vertex indices of the shared edge, wherever the edge lies in the
\* vertex cycle, for every vertex count parity and every position of the
\* element in the entry order.
C27_SharedEdgeVertices ==
    (call.fn = "v_indices" /\ Returned) =>
        \A e \in 1..Len(Arg1), j \in 1..Len(Arg2) :
            SharesEdge(Arg1, Arg2, e, j) =>
                /\ <<e - 1, j - 1>> \in DOMAIN ret
                /\ {ret[<<e - 1, j - 1>>].start, ret[<<e - 1, j - 1>>].end}
                       = Range(Arg1[e]) \cap Range(Arg2[j])
                /\ ret[<<e - 1, j - 1>>].start < ret[<<e - 1, j - 1>>].end

\* the pair was found for the edge that joins the last and the first vertex
\* of a polygon that starts at an odd position of the entry order, shared
\* with a boundary edge
WrapEdgeFound ==
    /\ call.fn = "v_indices" /\ Returned
    /\ \E e \in 2..Len(Arg1), j \in (Len(Arg1) + 1)..Len(Arg2) :
          /\ SharesEdge(Arg1, Arg2, e, j)
          /\ first_ptr(Arg1, e) % 2 = 1
          /\ Range(Arg2[j]) = {Arg1[e][1], Arg1[e][Len(Arg1[e])]}
          /\ {ret[<<e - 1, j - 1>>].start, ret[<<e - 1, j - 1>>].end} = Range(Arg2[j])

(***************************************************************************)
(* SpecHops: a walk of up to MaxHops calls of cell_walk_towards on a grid  *)
(* of unit cells, each from the index that the call before returned.       *)
(***************************************************************************)
MaxHops == 3

\* call.args: the grid, the location, the start index of the coming or
\* latest hop, allow_exit, the hops done, the start index of the walk
InitHops ==
    /\ ret = Pending
    /\ files = NoFiles
    /\ demo = NoDemo
    /\ meshes = NoMeshes
    /\ \E n \in WalkGrids : \E location \in WalkLocations(n), start \in WalkStarts(n),
          allow_exit \in BOOLEAN :
          call = Call("hop", <<n, location, start, allow_exit, 0, start>>)

\* idx, leaves_mesh, is_outside, distances, nb_idx =
\*     self.cell_walk_towards(location, idx, allow_exit)
Hop ==
    /\ call.fn = "hop"
    /\ call.args[5] < MaxHops
    /\ ret # Pending => (~IsRaise(ret) /\ ret.next_idx < call.args[1] * call.args[1])
    /\ LET idx == IF ret = Pending THEN call.args[3] ELSE ret.next_idx
       IN  /\ ret' = cell_walk_towards(UnitGrid(call.args[1]), call.args[2], idx,
                                       call.args[4])
           /\ call' = Call("hop", <<call.args[1], call.args[2], idx, call.args[4],
                                    call.args[5] + 1, call.args[6]>>)
    /\ UNCHANGED <<files, meshes, demo>>

NextHops == Hop

SpecHops == InitHops /\ [][NextHops]_vars

\* the cell of the n by n grid beyond the face of cell c with the largest
\* offset; n * n or more if that face lies on the boundary of the grid
AcrossMaxFace(n, c, location) ==
    LET offsets == CellOffsets(n, c, location)
        face == CHOOSE f \in 1..4 : offsets[f] = MaxOffset(n, c, location)
        i == c \div n
        j == c % n
    IN  CASE face = 1 -> IF i = 0 THEN n * n ELSE c - n
          [] face = 2 -> IF i = n - 1 THEN n * n ELSE c + n
          [] face = 3 -> IF j = 0 THEN n * n ELSE c - 1
          [] face = 4 -> IF j = n - 1 THEN n * n ELSE c + 1

\* C28: cell_walk_towards returns the index of the neighbour across the
\* face with the maximum signed offset exactly when the location is outside
\* the start cell (some face offset > 0) and that neighbour is an interior
\* cell or allow_exit is set; in every other case it returns the start
\* index.  Hence with allow_exit false the index stays below cell_count
\* after any number of hops, and a location inside the current cell never
\* moves the index.
C28_WalkStepRule ==
    (call.fn = "hop" /\ Returned) =>
        LET n == call.args[1]
            location == call.args[2]
            start == call.args[3]
            across == AcrossMaxFace(n, start, location)
        IN  /\ ~IsRaise(ret)
            /\ ret.distances[ret.nb_idx] = MaxOffset(n, start, location)
            /\ across < n * n => ret.nb_idx = across
            /\ across >= n * n => ret.nb_idx >= n * n
            /\ ret.next_idx = IF ~InsideCell(n, start, location)
                                 /\ (across < n * n \/ call.args[4])
                              THEN ret.nb_idx ELSE start
            /\ ~call.args[4] => ret.next_idx < n * n
            /\ InsideCell(n, start, location) => ret.next_idx = start

\* every hop ends in the TypeError of the call of any: no walk gets beyond
\* its first hop
HopRaises ==
    (call.fn = "hop" /\ Returned) =>
        /\ IsRaise(ret)
        /\ ret.raise = "TypeError"
        /\ call.args[5] = 1

(***************************************************************************)
(* SpecSparsePad: ConstantExtrapolation.pad of a sparse linear operation.  *)
(* The operation has a shape of two named axes and a dependency matrix in  *)
(* coordinate form, one (row, col, data) triple per stored entry; a row    *)
(* is the row-major index of a cell of the shape.                          *)
(***************************************************************************)
SparseLinearOperation(source, dependency_matrix, shape) ==
    [cls |-> "SparseLinearOperation", source |-> source,
     dependency_matrix |-> dependency_matrix, shape |-> shape]

\* the widths read as widths[name]
WidthsOf(widths, name) ==
    IF name \in DOMAIN widths THEN widths[name] ELSE Raise("KeyError", <<name>>)

\* a row left where it is but for the rows and the cells added before the
\* first cell
ShiftedRow(row, width, dy0, dx0, dx1) == row + dy0 * (width + dx0 + dx1) + dx0

\* y = row // value.shape[1];
\* padded_row = row + dy0 * (value.shape[1] + dx0 + dx1) + dx0 * (y + 1) + dx1 * y
padded_row(row, width, dy0, dx0, dx1) ==
    row + dy0 * (width + dx0 + dx1) + dx0 * ((row \div width) + 1) + dx1 * (row \div width)

\* ConstantExtrapolation.pad(value, widths) for a SparseLinearOperation
Constant_pad_sparse(self, value, widths) ==
    IF Len(value.shape.names) # 2 THEN Raise("AssertionError", <<>>)
    ELSE IF \E i \in 1..2 : value.shape.names[i] \notin DOMAIN widths
    THEN WidthsOf(widths, value.shape.names[CHOOSE i \in 1..2 :
                              /\ value.shape.names[i] \notin DOMAIN widths
                              /\ \A k \in 1..(i - 1) : value.shape.names[k] \in DOMAIN widths])
    ELSE LET dy == WidthsOf(widths, value.shape.names[1])
             dx == WidthsOf(widths, value.shape.names[2])
             new_sizes == <<value.shape.sizes[1] + dy[1] + dy[2],
                            value.shape.sizes[2] + dx[1] + dx[2]>>
         IN  SparseLinearOperation(
                 value.source,
                 [shape |-> <<new_sizes[1] * new_sizes[2], value.dependency_matrix.shape[2]>>,
                  coordinates |->
                      [i \in 1..Len(value.dependency_matrix.coordinates) |->
                          [row |-> padded_row(value.dependency_matrix.coordinates[i].row,
                                              value.shape.sizes[2], dy[1], dx[1], dx[2]),
                           col |-> value.dependency_matrix.coordinates[i].col,
                           data |-> value.dependency_matrix.coordinates[i].data]]],
                 [names |-> value.shape.names, sizes |-> new_sizes])

\* an operation of the given shape that reads every cell from a source of
\* `columns` entries: entry i of the matrix belongs to row i - 1
OperationOf(height, width, columns) ==
    SparseLinearOperation(
        "source",
        [shape |-> <<height * width, columns>>,
         coordinates |-> [i \in 1..(height * width) |->
                             [row |-> i - 1, col |-> (i - 1) % columns, data |-> i]]],
        [names |-> <<"y", "x">>, sizes |-> <<height, width>>])

SparseWidths ==
    [{"y", "x"} -> (0..MaxWidth) \X (0..MaxWidth)]
    \cup [{"x"} -> {<<MaxWidth, 0>>}]

InitSparsePad ==
    /\ ret = Pending
    /\ files = NoFiles
    /\ demo = NoDemo
    /\ meshes = NoMeshes
    /\ \E height \in 1..MaxSize, width \in 1..MaxSize, widths \in SparseWidths :
          call = Call("pad", <<OperationOf(height, width, 2), widths>>)

\* ConstantExtrapolation(0).pad(value, widths)
ConstantPadSparse ==
    /\ ret = Pending
    /\ call.fn = "pad"
    /\ ret' = Constant_pad_sparse(ZERO, call.args[1], call.args[2])
    /\ UNCHANGED <<call, files, meshes, demo>>

NextSparsePad == ConstantPadSparse

SpecSparsePad == InitSparsePad /\ [][NextSparsePad]_vars

\* C29: ConstantExtrapolation.pad of a 2D sparse-linear operation of shape
\* (H, W) with widths (dy0, dy1) on dim 0 and (dx0, dx1) on dim 1 maps each
\* row index r = y*W + x to the row-major index of cell (y + dy0, x + dx0)
\* in the padded shape (H + dy0 + dy1, W + dx0 + dx1); the mapping is
\* injective, every new row index is below the padded volume, and columns
\* and data are unchanged.
C29_SparseRowRemap ==
    (call.fn = "pad" /\ Returned /\ DOMAIN Arg2 = {"y", "x"}) =>
        LET old == Arg1.dependency_matrix.coordinates
            H == Arg1.shape.sizes[1]
            W == Arg1.shape.sizes[2]
            PH == H + Arg2["y"][1] + Arg2["y"][2]
            PW == W + Arg2["x"][1] + Arg2["x"][2]
        IN  /\ ~IsRaise(ret)
            /\ ret.shape = [names |-> <<"y", "x">>, sizes |-> <<PH, PW>>]
            /\ ret.dependency_matrix.shape = <<PH * PW, Arg1.dependency_matrix.shape[2]>>
            /\ Len(ret.dependency_matrix.coordinates) = Len(old)
            /\ \A i \in 1..Len(old) :
                  /\ ret.dependency_matrix.coordinates[i].row
                         = ((old[i].row \div W) + Arg2["y"][1]) * PW
                           + (old[i].row % W) + Arg2["x"][1]
                  /\ ret.dependency_matrix.coordinates[i].row \in 0..(PH * PW - 1)
                  /\ ret.dependency_matrix.coordinates[i].col = old[i].col
                  /\ ret.dependency_matrix.coordinates[i].data = old[i].data
            /\ \A i, k \in 1..Len(old) :
                  old[i].row # old[k].row =>
                      ret.dependency_matrix.coordinates[i].row
                          # ret.dependency_matrix.coordinates[k].row

\* an operation of several rows was padded on every side
PaddedOnEverySide ==
    /\ call.fn = "pad" /\ Returned /\ ~IsRaise(ret) /\ DOMAIN Arg2 = {"y", "x"}
    /\ Arg1.shape.sizes = <<MaxSize, 2>>
    /\ \A name \in {"y", "x"} : Arg2[name] = <<MaxWidth, MaxWidth>>
    /\ ret.dependency_matrix.coordinates[MaxSize * 2].row
           = (MaxSize + MaxWidth) * (2 + 2 * MaxWidth) - MaxWidth - 1

(***************************************************************************)
(* The library as a whole: the calls of any of the programs above.         *)
(***************************************************************************)
Init ==
    \/ InitAlgebra \/ InitPad \/ InitCoords \/ InitEmbed
    \/ InitMesh \/ InitFaces \/ InitEdit \/ InitArchive \/ InitWalk

Next ==
    \/ NextAlgebra \/ NextPad \/ NextCoords \/ NextEmbed
    \/ NextMesh \/ NextFaces \/ NextEdit \/ NextArchive \/ NextWalk

Spec == Init /\ [][Next]_vars

====
